---- MODULE Spec2Model ----
(***************************************************************************)
(* A model of the another_ext4 filesystem core: the bitmap allocator, the  *)
(* inode table, the extent mapping, the directory block engine and the     *)
(* low-level / high-level operations built on them.                        *)
(*                                                                         *)
(* The filesystem is a record fs = [sb, bg, bbm, ibm, ino, blk]; every     *)
(* helper of the code is an operator from fs (and the in-memory InodeRef   *)
(* copies the handler holds) to a result record that carries a status      *)
(* st ("ok", an errno name, "panic" or "hang") and the filesystem as the   *)
(* helper left it.  One action models one whole public operation.          *)
(*                                                                         *)
(* The device geometry is scaled down: BLOCK_SIZE, the number of groups    *)
(* and the per-group inode and block counts are small bounds.  Record      *)
(* sizes inside a directory block (8-byte header, 4-byte alignment,        *)
(* 12-byte tail) are the code's.                                           *)
(***************************************************************************)
EXTENDS Integers, Sequences, FiniteSets, TLC

----------------------------------------------------------------------------
(* Bounds of the model *)

BLOCK_SIZE == 64        \* scaled block size in bytes (the code uses 4096)
NameFieldSize == 4      \* scaled size of the name array of Ext4DirEntry (255)
BgCount == 2            \* number of block groups
InodesPerGroup == 3     \* inodes per block group
BlocksPerGroup == 6     \* blocks per block group (= bits searched per bitmap)
MetaBlocks == 2         \* leading blocks of every group holding metadata
ExtBlocksPerGroup == 20 \* blocks per block group of the images with the mapped file
MaxLblock == 7          \* largest logical block an extent is created for
MaxExtOps == 5          \* extent operations per behaviour
MaxOps == 3             \* operations per run of the name space specification
MaxRWOps == 3           \* operations per run of the read/write specification
SlotsPerBlock == 4      \* inode records of 128 bytes in a block of the inode table
MaxSlotOps == 2         \* write-backs per run of the inode table specification
MaxKeys == 2            \* keys of saved states
MaxReply == 2           \* entries a reply to readdir has room for
MaxReadOps == 4         \* operations per run of the directory handle specification
XattrBlockSize == 96    \* BLOCK_SIZE of the block of extended attributes
XattrNameMax == 11      \* length of the name array of XattrEntry
MaxXattrOps == 4        \* operations per run of the extended attribute specification
MaxSnapOps == 4         \* operations per run of the checkpoint specification

(* Program constants *)

EXT4_ROOT_INO == 2
DirEntryHeaderSize == 8
DirEntryTailSize == 12
RootMaxEntries == 4
TYPE_SHIFT == 4096
MODE_DIRECTORY == 16384
MODE_FILE == 32768
ALL_RWX == 511

\* The unit of an inode's block count is one file system block.
INODE_BLOCK_SIZE == BLOCK_SIZE

\* K applied to the value v: names the result of a call once
Bind(v, K(_)) == K(v)

Min(a, b) == IF a < b THEN a ELSE b

InodeIds == 1..(BgCount * InodesPerGroup)
Groups == 0..(BgCount - 1)
PBlockIds == 0..(BgCount * BlocksPerGroup - 1)

----------------------------------------------------------------------------
(* State *)

VARIABLES
    super_block,    \* [free_blocks_count, free_inodes_count]
    block_groups,   \* group id -> descriptor counters
    block_bitmaps,  \* group id -> (bit index -> BOOLEAN)
    inode_bitmaps,  \* group id -> (bit index -> BOOLEAN)
    inode_table,    \* inode id -> inode record
    device,         \* physical block id -> block content
    build,          \* "debug" (arithmetic overflow panics) or "release" (wraps)
    halted,         \* "run", or how the process stopped: "panic" / "hang"
    last,           \* summary of the operation that ran last
    before,         \* summary of the operation that ran before it
    shadow,         \* inode id -> the bytes written to it (reference array)
    nops,           \* number of operations run
    sb_block,       \* the super block as the block device holds it
    fuse            \* StateExt4FuseFs: [states, dirs, next_did]

fsvars == <<super_block, block_groups, block_bitmaps, inode_bitmaps,
            inode_table, device>>
vars == <<super_block, block_groups, block_bitmaps, inode_bitmaps,
          inode_table, device, build, halted, last, before, shadow, nops,
          sb_block, fuse>>

Cur == [sb |-> super_block, bg |-> block_groups, bbm |-> block_bitmaps,
        ibm |-> inode_bitmaps, ino |-> inode_table, blk |-> device]

----------------------------------------------------------------------------
(* Arithmetic on fixed-width unsigned integers *)

\* The modulus of a w-bit unsigned integer.  Words wider than WideBits bits
\* are modelled with WideBits bits: every quantity of the model is far below
\* 2^WideBits, so a wrapped value is still larger than any value computed
\* without wrapping.
WideBits == 24
Modulus(w) == IF w < WideBits THEN 2^w ELSE 2^WideBits

\* a - b on a w-bit unsigned integer: panics in a debug build, wraps in a
\* release build
USub(a, b, w) ==
    IF a >= b THEN [ok |-> TRUE, v |-> a - b]
    ELSE IF build = "debug" THEN [ok |-> FALSE, v |-> 0]
    ELSE [ok |-> TRUE, v |-> a - b + Modulus(w)]

----------------------------------------------------------------------------
(* Inode mode *)

file_type(mode) ==
    LET t == (mode \div TYPE_SHIFT) % 16 IN
    CASE t = 1 -> "Fifo"
      [] t = 2 -> "CharacterDev"
      [] t = 4 -> "Directory"
      [] t = 6 -> "BlockDev"
      [] t = 8 -> "RegularFile"
      [] t = 10 -> "SymLink"
      [] t = 12 -> "Socket"
      [] OTHER -> "Unknown"

is_file(inode) == file_type(inode.mode) = "RegularFile"
is_dir(inode) == file_type(inode.mode) = "Directory"

\* mem::zeroed() inode record
ZeroInode ==
    [mode |-> 0, size |-> 0, link_count |-> 0, block_count |-> 0,
     depth |-> 0, max_entries |-> 0, extents |-> <<>>, csum |-> FALSE,
     uid |-> 0, l_uid_hi |-> 0, gid |-> 0, l_gid_hi |-> 0,
     atime |-> 0, mtime |-> 0, ctime |-> 0, crtime |-> 0]

\* The owner of an inode: 16 low bits in the inode, 16 high bits in osd2
uid(inode) == inode.uid + Modulus(16) * inode.l_uid_hi

set_uid(inode, v) ==
    [inode EXCEPT !.uid = v % Modulus(16),
                  !.l_uid_hi = (v \div Modulus(16)) % Modulus(16)]

gid(inode) == inode.gid + Modulus(16) * inode.l_gid_hi

set_gid(inode, v) ==
    [inode EXCEPT !.gid = v % Modulus(16),
                  !.l_gid_hi = (v \div Modulus(16)) % Modulus(16)]

----------------------------------------------------------------------------
(* Block device and inode table access *)

ZeroBlock == [kind |-> "zero", data |-> <<>>]

read_inode(fs, id) == [id |-> id, inode |-> fs.ino[id]]

write_inode_with_csum(fs, ref) ==
    [fs EXCEPT !.ino[ref.id] = [ref.inode EXCEPT !.csum = TRUE]]

write_inode_without_csum(fs, ref) ==
    [fs EXCEPT !.ino[ref.id] = [ref.inode EXCEPT !.csum = FALSE]]

write_block(fs, pblock, content) == [fs EXCEPT !.blk[pblock] = content]

----------------------------------------------------------------------------
(* Bitmap *)

\* Number of bits the bitmap of a group holds
bitmap_bits(bitmap) == Cardinality(DOMAIN bitmap)

RECURSIVE first_clear_bit(_, _, _)
first_clear_bit(bitmap, start, end) ==
    IF start >= end THEN -1
    ELSE IF ~bitmap[start] THEN start
    ELSE first_clear_bit(bitmap, start + 1, end)

----------------------------------------------------------------------------
(* Block group descriptor accessors *)

ZeroDesc ==
    [free_blocks_count |-> 0, free_inodes_count |-> 0,
     used_dirs_count |-> 0, itable_unused |-> 0]

\* A descriptor slot past the last group reads as the zero filled rest of
\* the descriptor table.
read_block_group(fs, bgid) ==
    IF bgid \in Groups THEN fs.bg[bgid] ELSE ZeroDesc

\* The setter stores the count into the itable_unused field.
set_used_dirs_count(desc, cnt) == [desc EXCEPT !.itable_unused = cnt]

set_itable_unused(desc, cnt) == [desc EXCEPT !.itable_unused = cnt]

----------------------------------------------------------------------------
(* Bitmap allocator *)

alloc_block(fs, ref) ==
    LET bgid == (ref.id - 1) \div InodesPerGroup
        bit == first_clear_bit(fs.bbm[bgid], 0, bitmap_bits(fs.bbm[bgid]))
    IN
    IF bit = -1 THEN [st |-> "ENOSPC", fs |-> fs, ref |-> ref, pblock |-> 0]
    ELSE
      LET fs1 == [fs EXCEPT !.bbm[bgid][bit] = TRUE]
          sbf == USub(fs.sb.free_blocks_count, 1, 64)
      IN
      IF ~sbf.ok THEN [st |-> "panic", fs |-> fs1, ref |-> ref, pblock |-> 0]
      ELSE
        LET fs2 == [fs1 EXCEPT !.sb.free_blocks_count = sbf.v]
            ref1 == [ref EXCEPT !.inode.block_count =
                                    @ + (BLOCK_SIZE \div INODE_BLOCK_SIZE)]
            fs3 == write_inode_with_csum(fs2, ref1)
            bgf == USub(fs.bg[bgid].free_blocks_count, 1, 64)
        IN
        IF ~bgf.ok THEN [st |-> "panic", fs |-> fs3, ref |-> ref1, pblock |-> 0]
        ELSE [st |-> "ok",
              fs |-> [fs3 EXCEPT !.bg[bgid].free_blocks_count = bgf.v],
              ref |-> ref1,
              pblock |-> bit]

\* A dealloc_block that does not examine the bit before it clears it
dealloc_block_unchecked(fs, ref, pblock) ==
    LET bgid == (ref.id - 1) \div InodesPerGroup IN
    IF pblock >= bitmap_bits(fs.bbm[bgid]) THEN [st |-> "panic", fs |-> fs, ref |-> ref]
    ELSE [st |-> "ok",
          fs |-> [fs EXCEPT !.bbm[bgid][pblock] = FALSE,
                            !.sb.free_blocks_count = @ + 1,
                            !.bg[bgid].free_blocks_count = @ + 1],
          ref |-> ref]

dealloc_block(fs, ref, pblock) ==
    LET bgid == (ref.id - 1) \div InodesPerGroup IN
    IF pblock >= bitmap_bits(fs.bbm[bgid]) THEN [st |-> "panic", fs |-> fs, ref |-> ref]
    ELSE IF ~fs.bbm[bgid][pblock] THEN [st |-> "EINVAL", fs |-> fs, ref |-> ref]
    ELSE
      LET fs1 == [fs EXCEPT !.bbm[bgid][pblock] = FALSE,
                            !.sb.free_blocks_count = @ + 1]
          ibc == USub(ref.inode.block_count, BLOCK_SIZE \div INODE_BLOCK_SIZE, 64)
      IN
      IF ~ibc.ok THEN [st |-> "panic", fs |-> fs1, ref |-> ref]
      ELSE
        LET ref1 == [ref EXCEPT !.inode.block_count = ibc.v]
            fs2 == write_inode_with_csum(fs1, ref1)
        IN [st |-> "ok",
            fs |-> [fs2 EXCEPT !.bg[bgid].free_blocks_count = @ + 1],
            ref |-> ref1]

\* Result: [st, fs, id, examined], examined = the last group whose descriptor
\* was loaded
RECURSIVE alloc_inode_from(_, _, _)
alloc_inode_from(fs, isdir, bgid) ==
    IF bgid > BgCount
    THEN [st |-> "ENOSPC", fs |-> fs, id |-> 0, examined |-> bgid - 1]
    ELSE
      LET bg == read_block_group(fs, bgid) IN
      IF bg.free_inodes_count = 0 THEN alloc_inode_from(fs, isdir, bgid + 1)
      ELSE
        LET idx == first_clear_bit(fs.ibm[bgid], 0, InodesPerGroup) IN
        IF idx = -1 THEN [st |-> "ENOSPC", fs |-> fs, id |-> 0, examined |-> bgid]
        ELSE
          LET fs1 == [fs EXCEPT !.ibm[bgid][idx] = TRUE]
              bg1 == [bg EXCEPT !.free_inodes_count = @ - 1]
              bg2 == IF isdir
                     THEN set_used_dirs_count(bg1, bg1.used_dirs_count + 1)
                     ELSE bg1
              free == USub(InodesPerGroup, bg2.itable_unused, 32)
          IN
          IF ~free.ok THEN [st |-> "panic", fs |-> fs1, id |-> 0, examined |-> bgid]
          ELSE
            LET bg3 == IF idx >= free.v
                       THEN set_itable_unused(bg2, InodesPerGroup - (idx + 1))
                       ELSE bg2
                fs2 == [fs1 EXCEPT !.bg[bgid] = bg3]
                sbi == USub(fs.sb.free_inodes_count, 1, 32)
            IN
            IF ~sbi.ok THEN [st |-> "panic", fs |-> fs2, id |-> 0, examined |-> bgid]
            ELSE [st |-> "ok",
                  fs |-> [fs2 EXCEPT !.sb.free_inodes_count = sbi.v],
                  id |-> bgid * InodesPerGroup + (idx + 1),
                  examined |-> bgid]

alloc_inode(fs, isdir) == alloc_inode_from(fs, isdir, 0)

dealloc_inode(fs, ref) ==
    LET bgid == (ref.id - 1) \div InodesPerGroup
        idx == (ref.id - 1) % InodesPerGroup
        bg == fs.bg[bgid]
    IN
    IF ~fs.ibm[bgid][idx] THEN [st |-> "EINVAL", fs |-> fs]
    ELSE
      LET fs1 == [fs EXCEPT !.ibm[bgid][idx] = FALSE]
          bg1 == [bg EXCEPT !.free_inodes_count = @ + 1]
          ud == USub(bg1.used_dirs_count, 1, 32)
      IN
      IF is_dir(ref.inode) /\ ~ud.ok THEN [st |-> "panic", fs |-> fs1]
      ELSE
        LET bg2 == IF is_dir(ref.inode)
                   THEN set_used_dirs_count(bg1, ud.v)
                   ELSE bg1
            bg3 == set_itable_unused(bg2, bg2.itable_unused + 1)
            fs2 == [fs1 EXCEPT !.bg[bgid] = bg3]
            sbi == USub(fs.sb.free_inodes_count, 1, 32)
        IN
        IF ~sbi.ok THEN [st |-> "panic", fs |-> fs2]
        ELSE [st |-> "ok",
              fs |-> [fs2 EXCEPT !.sb.free_inodes_count = sbi.v]]


\* The device writes of the allocator functions, in the order the code issues
\* them; a call that stops at an arithmetic overflow has issued the writes
\* before it.
alloc_block_writes(fs, ref) ==
    LET bgid == (ref.id - 1) \div InodesPerGroup IN
    IF first_clear_bit(fs.bbm[bgid], 0, bitmap_bits(fs.bbm[bgid])) = -1 THEN <<>>
    ELSE IF ~USub(fs.sb.free_blocks_count, 1, 64).ok THEN <<"bitmap">>
    ELSE IF ~USub(fs.bg[bgid].free_blocks_count, 1, 64).ok
         THEN <<"bitmap", "super_block", "inode">>
         ELSE <<"bitmap", "super_block", "inode", "block_group">>

dealloc_block_writes(fs, ref, pblock) ==
    LET bgid == (ref.id - 1) \div InodesPerGroup IN
    IF pblock >= bitmap_bits(fs.bbm[bgid]) \/ ~fs.bbm[bgid][pblock] THEN <<>>
    ELSE IF ~USub(ref.inode.block_count, BLOCK_SIZE \div INODE_BLOCK_SIZE, 64).ok
         THEN <<"bitmap", "super_block">>
         ELSE <<"bitmap", "super_block", "inode", "block_group">>

alloc_inode_writes(fs, isdir) ==
    IF alloc_inode(fs, isdir).st = "ok"
    THEN <<"bitmap", "block_group", "super_block">>
    ELSE <<>>

dealloc_inode_writes(fs, ref) ==
    LET bgid == (ref.id - 1) \div InodesPerGroup
        idx == (ref.id - 1) % InodesPerGroup
    IN
    IF ~fs.ibm[bgid][idx] THEN <<>>
    ELSE IF is_dir(ref.inode) /\ ~USub(fs.bg[bgid].used_dirs_count, 1, 32).ok
         THEN <<"bitmap">>
         ELSE IF ~USub(fs.sb.free_inodes_count, 1, 32).ok
              THEN <<"bitmap", "block_group">>
              ELSE <<"bitmap", "block_group", "super_block">>

----------------------------------------------------------------------------
(* Extent mapping.  An extent is [first_block, block_count, start_pblock];  *)
(* the root node lives in the inode (depth, max_entries, extents).          *)

EXT_INIT_MAX_LEN == 32768
ExtentHeaderSize == 12   \* size_of::<Ext4ExtentHeader>()
ExtentSize == 12         \* size_of::<Ext4Extent>() = size_of::<Ext4ExtentIndex>()
EXT_MAX_BLOCKS == Modulus(32) - 1

extent_block_count(e) ==
    IF e.block_count <= EXT_INIT_MAX_LEN THEN e.block_count
    ELSE e.block_count - EXT_INIT_MAX_LEN

extent_is_uninit(e) == e.block_count > EXT_INIT_MAX_LEN

\* Result: found = Ok(index) / ~found = Err(index); index is 0-based.
RECURSIVE extent_search_from(_, _, _)
extent_search_from(entries, lblock, i) ==
    IF i >= Len(entries) THEN [found |-> FALSE, index |-> i]
    ELSE
      LET e == entries[i + 1] IN
      IF e.first_block <= lblock
      THEN IF e.first_block + extent_block_count(e) > lblock
           THEN [found |-> ~extent_is_uninit(e), index |-> i]
           ELSE extent_search_from(entries, lblock, i + 1)
      ELSE [found |-> FALSE, index |-> i]

extent_search(entries, lblock) == extent_search_from(entries, lblock, 0)

\* An index entry occupies the same 12 bytes as an extent: first_block,
\* then leaf_lo (over block_count and start_hi), leaf_hi and padding (over
\* start_lo).  Entries of either kind are kept in the extent layout.
ExtentIndex_new(first_block, leaf) ==
    [first_block |-> first_block,
     block_count |-> leaf % Modulus(16),
     start_pblock |-> ((leaf \div Modulus(16)) % Modulus(16)) * Modulus(32)
                      + ((leaf \div Modulus(32)) % Modulus(16))]

\* ExtentIndex::leaf of the 12 bytes of an entry
index_leaf(e) ==
    (e.start_pblock % Modulus(16)) * Modulus(32)
    + ((e.start_pblock \div Modulus(32)) % Modulus(16)) * Modulus(16)
    + e.block_count

\* Result: st = "ok" with found = Ok(index) / ~found = Err(index); the
\* subtraction i - 1 with i = 0 panics in a debug build and wraps to an index
\* far outside the node in a release build.
RECURSIVE extent_index_search_from(_, _, _)
extent_index_search_from(entries, lblock, i) ==
    IF i >= Len(entries) THEN [st |-> "ok", found |-> FALSE, index |-> i]
    ELSE IF entries[i + 1].first_block <= lblock
    THEN extent_index_search_from(entries, lblock, i + 1)
    ELSE IF i >= 1 THEN [st |-> "ok", found |-> TRUE, index |-> i - 1]
    ELSE IF build = "debug" THEN [st |-> "panic", found |-> FALSE, index |-> 0]
    ELSE [st |-> "garbage", found |-> FALSE, index |-> 0]

extent_index_search(entries, lblock) == extent_index_search_from(entries, lblock, 0)

\* The root node of the tree, kept in the inode
extent_node(inode) ==
    [depth |-> inode.depth, max_entries |-> inode.max_entries,
     entries |-> inode.extents]

\* The bytes of a block read as an extent node: a zero filled block is an
\* empty leaf without room; a block of another kind has no defined reading.
ExtentNode_from_bytes(fs, pblock) ==
    IF pblock \notin DOMAIN fs.blk THEN [st |-> "garbage", node |-> extent_node(ZeroInode)]
    ELSE IF fs.blk[pblock].kind = "extent" THEN [st |-> "ok", node |-> fs.blk[pblock].data]
    ELSE IF fs.blk[pblock].kind = "zero" THEN [st |-> "ok", node |-> extent_node(ZeroInode)]
    ELSE [st |-> "garbage", node |-> extent_node(ZeroInode)]

ExtentBlock(node) == [kind |-> "extent", data |-> node]

\* The walk from a node down to a leaf; a walk longer than the device has
\* blocks never ends.  Result: [st, path], the leaf step last.
RECURSIVE find_extent_from(_, _, _, _, _, _)
find_extent_from(fs, ex_node, pblock, iblock, path, fuel) ==
    IF ex_node.depth > 0
    THEN
      IF fuel = 0 THEN [st |-> "hang", path |-> path]
      ELSE
        Bind(extent_index_search(ex_node.entries, iblock), LAMBDA index :
          IF index.st # "ok" THEN [st |-> index.st, path |-> path]
          ELSE IF ~index.found THEN [st |-> "panic", path |-> path]
          ELSE
            Bind(index_leaf(ex_node.entries[index.index + 1]), LAMBDA next :
              Bind(ExtentNode_from_bytes(fs, next), LAMBDA n :
                IF n.st # "ok" THEN [st |-> n.st, path |-> path]
                ELSE find_extent_from(fs, n.node, next, iblock,
                                      Append(path, [pblock |-> pblock, index |-> index]),
                                      fuel - 1))))
    ELSE [st |-> "ok",
          path |-> Append(path, [pblock |-> pblock,
                                 index |-> extent_search(ex_node.entries, iblock)])]

find_extent(fs, ref, iblock) ==
    find_extent_from(fs, extent_node(ref.inode), 0, iblock, <<>>,
                     Cardinality(DOMAIN fs.blk))

\* The node a step of the search path stands in
load_node(fs, ref, pblock) ==
    IF pblock # 0 THEN ExtentNode_from_bytes(fs, pblock).node
    ELSE extent_node(ref.inode)

extent_get_pblock(fs, ref, iblock) ==
    Bind(find_extent(fs, ref, iblock), LAMBDA f :
      IF f.st # "ok" THEN [st |-> f.st, pblock |-> 0]
      ELSE
        Bind(f.path[Len(f.path)], LAMBDA leaf :
          IF leaf.index.found
          THEN Bind(load_node(fs, ref, leaf.pblock).entries[leaf.index.index + 1],
                    LAMBDA ex :
                      [st |-> "ok",
                       pblock |-> ex.start_pblock + (iblock - ex.first_block)])
          ELSE [st |-> "ENOENT", pblock |-> 0]))

\* Capacity of a node kept in a block
NodeMaxEntries == (BLOCK_SIZE - ExtentHeaderSize) \div ExtentSize

\* ExtentNodeMut::init
init(depth, generation) ==
    [depth |-> depth, max_entries |-> NodeMaxEntries, entries |-> <<>>]

\* ExtentNodeMut::insert_extent: shift the following entries right and place
\* the new entry at the index; a node that would exceed its capacity keeps
\* the left half and hands back the right half.
\* Result: [ok, entries, split].
node_insert_extent(node, new_ext, index) ==
    Bind(SubSeq(node.entries, 1, index) \o <<new_ext>> \o
         SubSeq(node.entries, index + 1, Len(node.entries)), LAMBDA all :
      IF Len(node.entries) < node.max_entries
      THEN [ok |-> TRUE, entries |-> all, split |-> <<>>]
      ELSE [ok |-> FALSE,
            entries |-> SubSeq(all, 1, Len(all) \div 2),
            split |-> SubSeq(all, Len(all) \div 2 + 1, Len(all))])

node_insert_extent_index(node, extent_index, pos) ==
    node_insert_extent(node, extent_index, pos)

\* Result: [st, fs, ref, split]; st = "split" hands the right half upwards.
extent_split(fs, ref, parent_pblock, child_pos, split_part) ==
    Bind(alloc_block(fs, ref), LAMBDA a :
      IF a.st # "ok" THEN [st |-> "panic", fs |-> a.fs, ref |-> a.ref, split |-> <<>>]
      ELSE
        Bind([init(0, 0) EXCEPT !.entries = split_part], LAMBDA right_node :
          Bind(ExtentIndex_new(right_node.entries[1].first_block, a.pblock),
               LAMBDA extent_index :
            Bind(write_block(a.fs, a.pblock, ExtentBlock(right_node)), LAMBDA fs1 :
              Bind(node_insert_extent_index(load_node(fs1, a.ref, parent_pblock),
                                            extent_index, child_pos), LAMBDA res :
                IF parent_pblock = 0
                THEN
                  Bind([a.ref EXCEPT !.inode.extents = res.entries], LAMBDA ref1 :
                    [st |-> IF res.ok THEN "ok" ELSE "split",
                     fs |-> write_inode_without_csum(fs1, ref1),
                     ref |-> ref1, split |-> res.split])
                ELSE
                  [st |-> IF res.ok THEN "ok" ELSE "split",
                   fs |-> write_block(fs1, parent_pblock,
                            ExtentBlock([load_node(fs1, a.ref, parent_pblock)
                                            EXCEPT !.entries = res.entries])),
                   ref |-> a.ref, split |-> res.split])))))

\* Result: [st, fs, ref]
split_root(fs, ref, split_part) ==
    Bind(alloc_block(fs, ref), LAMBDA l :
      IF l.st # "ok" THEN [st |-> l.st, fs |-> l.fs, ref |-> l.ref]
      ELSE
        Bind(alloc_block(l.fs, l.ref), LAMBDA r :
          IF r.st # "ok" THEN [st |-> r.st, fs |-> r.fs, ref |-> r.ref]
          ELSE
            Bind([init(0, 0) EXCEPT !.entries = r.ref.inode.extents], LAMBDA left :
              Bind([init(0, 0) EXCEPT !.entries = split_part], LAMBDA right :
                Bind([r.ref EXCEPT
                        !.inode.depth = @ + 1,
                        !.inode.extents =
                           <<ExtentIndex_new(left.entries[1].first_block, l.pblock),
                             ExtentIndex_new(right.entries[1].first_block, r.pblock)>>],
                     LAMBDA ref1 :
                  [st |-> "ok",
                   fs |-> write_inode_without_csum(
                            write_block(write_block(r.fs, l.pblock, ExtentBlock(left)),
                                        r.pblock, ExtentBlock(right)),
                            ref1),
                   ref |-> ref1])))))

\* The loop of insert_extent over the parents of a split leaf, nearest
\* parent first; a split that reaches past the root splits the root.
RECURSIVE split_parents(_, _, _, _, _)
split_parents(fs, ref, path, k, split_part) ==
    IF k < 1 THEN split_root(fs, ref, split_part)
    ELSE
      Bind(extent_split(fs, ref, path[k].pblock, path[k].index.index, split_part), LAMBDA res :
        IF res.st = "split"
        THEN split_parents(res.fs, res.ref, path, k - 1, res.split)
        ELSE [st |-> res.st, fs |-> res.fs, ref |-> res.ref])

insert_extent(fs, ref, path, new_ext) ==
    Bind(path[Len(path)], LAMBDA leaf :
      Bind(node_insert_extent(load_node(fs, ref, leaf.pblock), new_ext,
                              leaf.index.index), LAMBDA res :
        IF leaf.pblock = 0
        THEN
          Bind([ref EXCEPT !.inode.extents = res.entries], LAMBDA ref1 :
            IF res.ok
            THEN [st |-> "ok", fs |-> write_inode_without_csum(fs, ref1), ref |-> ref1]
            ELSE split_root(write_inode_without_csum(fs, ref1), ref1, res.split))
        ELSE
          Bind(write_block(fs, leaf.pblock,
                 ExtentBlock([load_node(fs, ref, leaf.pblock)
                                 EXCEPT !.entries = res.entries])), LAMBDA fs1 :
            IF res.ok THEN [st |-> "ok", fs |-> fs1, ref |-> ref]
            ELSE split_parents(fs1, ref, path, Len(path) - 1, res.split))))

extent_get_pblock_create(fs, ref, iblock, block_count) ==
    Bind(find_extent(fs, ref, iblock), LAMBDA f :
      IF f.st # "ok" THEN [st |-> f.st, fs |-> fs, ref |-> ref, pblock |-> 0]
      ELSE
        Bind(f.path[Len(f.path)], LAMBDA leaf :
          IF leaf.index.found
          THEN Bind(load_node(fs, ref, leaf.pblock).entries[leaf.index.index + 1],
                    LAMBDA ex :
                      [st |-> "ok", fs |-> fs, ref |-> ref,
                       pblock |-> ex.start_pblock + (iblock - ex.first_block)])
          ELSE
            Bind(alloc_block(fs, ref), LAMBDA a :
              IF a.st # "ok" THEN a
              ELSE
                Bind(insert_extent(a.fs, a.ref, f.path,
                                   [first_block |-> iblock,
                                    block_count |-> Min(block_count,
                                                        EXT_MAX_BLOCKS - iblock),
                                    start_pblock |-> a.pblock]),
                     LAMBDA r : [st |-> r.st, fs |-> r.fs, ref |-> r.ref,
                                 pblock |-> a.pblock]))))

\* All physical blocks mapped by the extents of the inode, in extent order.
RECURSIVE extent_get_all_pblocks_from(_, _)
extent_get_all_pblocks_from(entries, i) ==
    IF i > Len(entries) THEN <<>>
    ELSE [k \in 1..extent_block_count(entries[i]) |->
             entries[i].start_pblock + (k - 1)]
         \o extent_get_all_pblocks_from(entries, i + 1)

extent_get_all_pblocks(ref) == extent_get_all_pblocks_from(ref.inode.extents, 1)

----------------------------------------------------------------------------
(* Inode creation, release and growth *)

create_inode(fs, mode) ==
    Bind(alloc_inode(fs, file_type(mode) = "Directory"), LAMBDA a :
      IF a.st # "ok"
      THEN [st |-> a.st, fs |-> a.fs, ref |-> [id |-> 0, inode |-> ZeroInode]]
      ELSE
        Bind([id |-> a.id,
              inode |-> [ZeroInode EXCEPT !.mode = mode,
                                          !.max_entries = RootMaxEntries]],
             LAMBDA ref :
               [st |-> "ok", fs |-> write_inode_with_csum(a.fs, ref), ref |-> ref]))

RECURSIVE free_inode_blocks(_, _, _, _)
free_inode_blocks(fs, ref, pblocks, i) ==
    IF i > Len(pblocks) THEN [st |-> "ok", fs |-> fs, ref |-> ref]
    ELSE
      Bind(dealloc_block(fs, ref, pblocks[i]), LAMBDA d :
        IF d.st # "ok" THEN d
        ELSE free_inode_blocks(write_block(d.fs, pblocks[i], ZeroBlock),
                               d.ref, pblocks, i + 1))

free_inode(fs, ref) ==
    Bind(free_inode_blocks(fs, ref, extent_get_all_pblocks(ref), 1), LAMBDA b :
      IF b.st # "ok" THEN b
      ELSE
        Bind(dealloc_inode(b.fs, b.ref), LAMBDA d :
          IF d.st # "ok" THEN [st |-> d.st, fs |-> d.fs, ref |-> b.ref]
          ELSE
            Bind([b.ref EXCEPT !.inode = ZeroInode], LAMBDA ref1 :
              [st |-> "ok", fs |-> write_inode_without_csum(d.fs, ref1),
               ref |-> ref1])))

inode_append_block(fs, ref) ==
    Bind((ref.inode.size + BLOCK_SIZE - 1) \div BLOCK_SIZE, LAMBDA iblock :
      Bind(extent_get_pblock_create(fs, ref, iblock, 1), LAMBDA r :
        IF r.st # "ok" THEN [st |-> r.st, fs |-> r.fs, ref |-> r.ref,
                             iblock |-> iblock, pblock |-> 0]
        ELSE
          Bind([r.ref EXCEPT !.inode.block_count = @ + 1], LAMBDA ref1 :
            [st |-> "ok", fs |-> write_inode_with_csum(r.fs, ref1), ref |-> ref1,
             iblock |-> iblock, pblock |-> r.pblock])))

----------------------------------------------------------------------------
(* Directory block engine.  A directory block is the sequence of its        *)
(* records [inode, rec_len, name, ft] in offset order, the 12-byte tail      *)
(* included as the last record (its inode field is 0).                       *)

RoundUp4(n) == ((n + 3) \div 4) * 4

\* size_of::<Ext4DirEntry>(): header plus the name array, 4-byte aligned
DirEntrySize == RoundUp4(DirEntryHeaderSize + NameFieldSize)

TailRec == [inode |-> 0, rec_len |-> DirEntryTailSize, name |-> <<>>, ft |-> "Tail"]

\* What a directory walk sees in a block: the records of a directory block;
\* a zero filled block parses as one record with inode 0 and rec_len 0.
DirRecs(b) ==
    IF b.kind = "dir" THEN b.data
    ELSE <<[inode |-> 0, rec_len |-> 0, name |-> <<>>, ft |-> "Unknown"]>>

DirBlock(recs) == [kind |-> "dir", data |-> recs]

ext4_dir_write_entry(entry_len, child, name) ==
    [inode |-> child.id, rec_len |-> entry_len, name |-> name,
     ft |-> file_type(child.inode.mode)]

RECURSIVE try_insert_walk(_, _, _, _, _, _)
try_insert_walk(recs, i, offset, required_len, child, name) ==
    IF offset >= BLOCK_SIZE \/ i > Len(recs) THEN [st |-> "ENOSPC", recs |-> recs]
    ELSE
      LET de == recs[i] IN
      IF de.inode = 0 THEN [st |-> "hang", recs |-> recs]
      ELSE
        LET sz == DirEntryHeaderSize + Len(de.name)
                  + (IF (Len(de.name) % 4) # 0 THEN 4 - (Len(de.name) % 4) ELSE 0)
            free_space == de.rec_len - sz
        IN
        IF free_space >= required_len
        THEN [st |-> "ok",
              recs |-> SubSeq(recs, 1, i - 1)
                       \o <<[de EXCEPT !.rec_len = sz],
                            ext4_dir_write_entry(free_space, child, name)>>
                       \o SubSeq(recs, i + 1, Len(recs))]
        ELSE try_insert_walk(recs, i + 1, offset + de.rec_len,
                             required_len, child, name)

ext4_dir_try_insert_entry(b, child, name) ==
    IF b.kind = "data" THEN [st |-> "garbage", recs |-> <<>>]
    ELSE try_insert_walk(DirRecs(b), 1, 0,
                         RoundUp4(DirEntrySize + Len(name)), child, name)

\* A walk that compares only the first Len(name) bytes of the stored name
RECURSIVE find_in_block_walk_prefix(_, _, _, _)
find_in_block_walk_prefix(recs, i, offset, name) ==
    IF offset >= BLOCK_SIZE \/ i > Len(recs) THEN [st |-> "notfound", index |-> 0]
    ELSE
      LET de == recs[i] IN
      IF de.inode # 0 /\ Len(de.name) >= Len(name)
         /\ SubSeq(de.name, 1, Len(name)) = name
      THEN [st |-> "found", index |-> i]
      ELSE IF de.rec_len = 0 THEN [st |-> "hang", index |-> 0]
           ELSE find_in_block_walk_prefix(recs, i + 1, offset + de.rec_len, name)

\* Result: st = "found" with the record index, "notfound", or "hang" when
\* the walk cannot advance.
RECURSIVE find_in_block_walk(_, _, _, _)
find_in_block_walk(recs, i, offset, name) ==
    IF offset >= BLOCK_SIZE \/ i > Len(recs) THEN [st |-> "notfound", index |-> 0]
    ELSE
      LET de == recs[i] IN
      IF de.inode = 0
      THEN IF de.rec_len = 0 THEN [st |-> "hang", index |-> 0]
           ELSE find_in_block_walk(recs, i + 1, offset + de.rec_len, name)
      ELSE IF Len(name) = Len(de.name) /\ name = de.name
           THEN [st |-> "found", index |-> i]
           ELSE IF de.rec_len = 0 THEN [st |-> "hang", index |-> 0]
           ELSE find_in_block_walk(recs, i + 1, offset + de.rec_len, name)

ext4_dir_find_in_block(b, name) ==
    IF b.kind = "data" THEN [st |-> "garbage", index |-> 0]
    ELSE find_in_block_walk(DirRecs(b), 1, 0, name)

\* Result: st = "ok" with the record found, "ENOENT", "hang" or "garbage".
RECURSIVE dir_find_from(_, _, _, _)
dir_find_from(fs, parent, name, iblock) ==
    IF iblock >= parent.inode.size \div BLOCK_SIZE
    THEN [st |-> "ENOENT", pblock |-> 0, index |-> 0, inode |-> 0]
    ELSE
      Bind(extent_get_pblock(fs, parent, iblock), LAMBDA q :
        IF q.st # "ok" THEN [st |-> q.st, pblock |-> 0, index |-> 0, inode |-> 0]
        ELSE
          Bind(ext4_dir_find_in_block(fs.blk[q.pblock], name), LAMBDA r :
            IF r.st = "found"
            THEN [st |-> "ok", pblock |-> q.pblock, index |-> r.index,
                  inode |-> fs.blk[q.pblock].data[r.index].inode]
            ELSE IF r.st = "notfound"
                 THEN dir_find_from(fs, parent, name, iblock + 1)
                 ELSE [st |-> r.st, pblock |-> 0, index |-> 0, inode |-> 0]))

ext4_dir_find_entry(fs, parent, name) == dir_find_from(fs, parent, name, 0)

\* Appending a data block to a directory: the block is appended to the
\* inode and the directory size grows by one block.
ext4_fs_append_inode_dblk(fs, dir) ==
    Bind(inode_append_block(fs, dir), LAMBDA a :
      IF a.st # "ok" THEN a
      ELSE
        Bind([a.ref EXCEPT !.inode.size = @ + BLOCK_SIZE], LAMBDA ref1 :
          [st |-> "ok", fs |-> write_inode_with_csum(a.fs, ref1), ref |-> ref1,
           iblock |-> a.iblock, pblock |-> a.pblock]))

RECURSIVE dir_add_from(_, _, _, _, _)
dir_add_from(fs, parent, child, name, iblock) ==
    IF iblock >= parent.inode.size \div BLOCK_SIZE
    THEN
      \* No free block found - needed to allocate next data block
      Bind(ext4_fs_append_inode_dblk(fs, parent), LAMBDA a :
        IF a.st # "ok" THEN [st |-> a.st, fs |-> a.fs, ref |-> a.ref]
        ELSE
          [st |-> "ok",
           fs |-> write_block(a.fs, a.pblock,
                    DirBlock(<<ext4_dir_write_entry(BLOCK_SIZE - DirEntryTailSize,
                                                    child, name),
                               TailRec>>)),
           ref |-> a.ref])
    ELSE
      Bind(extent_get_pblock(fs, parent, iblock), LAMBDA q :
        IF q.st # "ok" THEN [st |-> q.st, fs |-> fs, ref |-> parent]
        ELSE
          Bind(ext4_dir_try_insert_entry(fs.blk[q.pblock], child, name), LAMBDA r :
            IF r.st = "ok"
            THEN [st |-> "ok", fs |-> write_block(fs, q.pblock, DirBlock(r.recs)),
                  ref |-> parent]
            ELSE IF r.st # "ENOSPC" THEN [st |-> r.st, fs |-> fs, ref |-> parent]
            ELSE IF ext4_dir_find_in_block(fs.blk[q.pblock], name).st = "found"
                 THEN [st |-> "ok", fs |-> fs, ref |-> parent]
                 ELSE dir_add_from(fs, parent, child, name, iblock + 1)))

ext4_dir_add_entry(fs, parent, child, name) ==
    dir_add_from(fs, parent, child, name, 0)

\* Remove(dir, name): find the record and mark it unused (inode 0), keeping
\* its rec_len; write the block.
dir_remove_entry(fs, parent, name) ==
    Bind(ext4_dir_find_entry(fs, parent, name), LAMBDA f :
      IF f.st # "ok" THEN [st |-> f.st, fs |-> fs]
      ELSE [st |-> "ok",
            fs |-> [fs EXCEPT !.blk[f.pblock].data[f.index].inode = 0]])

\* List(dir): the records in use, in block and offset order.
RECURSIVE dir_get_all_entries_from(_, _, _)
dir_get_all_entries_from(fs, ref, iblock) ==
    IF iblock >= ref.inode.size \div BLOCK_SIZE THEN [st |-> "ok", entries |-> <<>>]
    ELSE
      Bind(extent_get_pblock(fs, ref, iblock), LAMBDA q :
        IF q.st # "ok" THEN [st |-> q.st, entries |-> <<>>]
        ELSE
          Bind(fs.blk[q.pblock], LAMBDA b :
            IF b.kind = "data" THEN [st |-> "garbage", entries |-> <<>>]
            ELSE IF b.kind = "zero" THEN [st |-> "hang", entries |-> <<>>]
            ELSE
              Bind(dir_get_all_entries_from(fs, ref, iblock + 1), LAMBDA rest :
                IF rest.st # "ok" THEN rest
                ELSE [st |-> "ok",
                      entries |-> SelectSeq(b.data, LAMBDA de : de.inode # 0)
                                  \o rest.entries])))

dir_get_all_entries(fs, ref) == dir_get_all_entries_from(fs, ref, 0)

----------------------------------------------------------------------------
(* Linking and unlinking *)

link_inode(fs, parent, child, name) ==
    Bind(ext4_dir_add_entry(fs, parent, child, name), LAMBDA a :
      IF a.st # "ok"
      THEN [st |-> a.st, fs |-> a.fs, parent |-> a.ref, child |-> child]
      ELSE IF is_dir(child.inode) /\ child.inode.link_count = 0
      THEN
        \* Add '.' and '..' entries if child is a newly created directory
        Bind(ext4_dir_add_entry(a.fs, child, child, <<".">>), LAMBDA d1 :
          IF d1.st # "ok"
          THEN [st |-> d1.st, fs |-> d1.fs, parent |-> a.ref, child |-> d1.ref]
          ELSE
            Bind(ext4_dir_add_entry(d1.fs, d1.ref, a.ref, <<".", ".">>), LAMBDA d2 :
              IF d2.st # "ok"
              THEN [st |-> d2.st, fs |-> d2.fs, parent |-> a.ref, child |-> d2.ref]
              ELSE
                Bind([a.ref EXCEPT !.inode.link_count = (@ + 1) % Modulus(16)],
                     LAMBDA parent1 :
                  Bind([d2.ref EXCEPT !.inode.link_count =
                                         child.inode.link_count + 2],
                       LAMBDA child1 :
                    [st |-> "ok",
                     fs |-> write_inode_with_csum(
                              write_inode_with_csum(d2.fs, parent1), child1),
                     parent |-> parent1, child |-> child1]))))
      ELSE
        Bind([child EXCEPT !.inode.link_count = (@ + 1) % Modulus(16)],
             LAMBDA child1 :
          [st |-> "ok", fs |-> write_inode_with_csum(a.fs, child1),
           parent |-> a.ref, child |-> child1]))

\* An unlink that removes the entry and leaves every link count as it is
unlink_inode_keep_links(fs, parent, child, name) ==
    Bind(dir_remove_entry(fs, parent, name), LAMBDA r : [st |-> r.st, fs |-> r.fs])

unlink_inode(fs, parent, child, name) ==
    Bind(dir_remove_entry(fs, parent, name), LAMBDA r :
      IF r.st # "ok" THEN [st |-> r.st, fs |-> r.fs]
      ELSE IF is_dir(child.inode) /\ child.inode.link_count <= 2
      THEN
        \* Child is an empty directory: unlink "child/.." and remove it
        Bind(USub(parent.inode.link_count, 1, 16), LAMBDA plc :
          IF ~plc.ok THEN [st |-> "panic", fs |-> r.fs]
          ELSE
            Bind(free_inode(
                   write_inode_with_csum(r.fs,
                     [parent EXCEPT !.inode.link_count = plc.v]), child),
                 LAMBDA f : [st |-> f.st, fs |-> f.fs]))
      ELSE IF child.inode.link_count <= 1
      THEN Bind(free_inode(r.fs, child), LAMBDA f : [st |-> f.st, fs |-> f.fs])
      ELSE
        [st |-> "ok",
         fs |-> write_inode_with_csum(r.fs,
                  [child EXCEPT !.inode.link_count = @ - 1])])

----------------------------------------------------------------------------
(* Low-level operations.  Each returns its status, the file system it       *)
(* leaves behind (also when it fails part way) and its return value.        *)

NoAttr == [ino |-> 0, size |-> 0, blocks |-> 0, atime |-> 0, mtime |-> 0,
           ctime |-> 0, crtime |-> 0, ftype |-> "Unknown", perm |-> 0,
           links |-> 0, uid |-> 0, gid |-> 0]

getattr(fs, id) ==
    Bind(read_inode(fs, id), LAMBDA inode :
      IF inode.inode.mode = 0 THEN [st |-> "EINVAL", ret |-> NoAttr]
      ELSE [st |-> "ok",
            ret |-> [ino |-> id, size |-> inode.inode.size,
                     blocks |-> inode.inode.block_count,
                     atime |-> inode.inode.atime,
                     mtime |-> inode.inode.mtime,
                     ctime |-> inode.inode.ctime,
                     crtime |-> inode.inode.crtime,
                     ftype |-> file_type(inode.inode.mode),
                     perm |-> inode.inode.mode % TYPE_SHIFT,
                     links |-> inode.inode.link_count,
                     uid |-> uid(inode.inode),
                     gid |-> gid(inode.inode)]])

\* Option::None of an attribute that setattr is not given
None == 0 - 1

\* A setattr that writes every attribute, one it is not given as zero
setattr_all(fs, id, mode, new_uid, new_gid, size, atime, mtime, ctime, crtime) ==
    Bind(read_inode(fs, id), LAMBDA inode :
      IF inode.inode.mode = 0 THEN [st |-> "EINVAL", fs |-> fs]
      ELSE
        [st |-> "ok",
         fs |-> write_inode_with_csum(fs,
                  [inode EXCEPT !.inode =
                     [set_gid(set_uid(@, IF new_uid = None THEN 0 ELSE new_uid),
                              IF new_gid = None THEN 0 ELSE new_gid)
                        EXCEPT !.mode = IF mode = None THEN @ ELSE mode,
                               !.size = IF size = None THEN 0 ELSE size,
                               !.atime = IF atime = None THEN 0 ELSE atime,
                               !.mtime = IF mtime = None THEN 0 ELSE mtime,
                               !.ctime = IF ctime = None THEN 0 ELSE ctime,
                               !.crtime = IF crtime = None THEN 0 ELSE crtime]])])

setattr(fs, id, mode, new_uid, new_gid, size, atime, mtime, ctime, crtime) ==
    Bind(read_inode(fs, id), LAMBDA inode :
      IF inode.inode.mode = 0 THEN [st |-> "EINVAL", fs |-> fs]
      ELSE
        Bind(IF mode = None THEN inode.inode
             ELSE [inode.inode EXCEPT !.mode = mode], LAMBDA i1 :
        Bind(IF new_uid = None THEN i1 ELSE set_uid(i1, new_uid), LAMBDA i2 :
        Bind(IF new_gid = None THEN i2 ELSE set_gid(i2, new_gid), LAMBDA i3 :
        Bind(IF size = None THEN i3 ELSE [i3 EXCEPT !.size = size], LAMBDA i4 :
        Bind(IF atime = None THEN i4 ELSE [i4 EXCEPT !.atime = atime], LAMBDA i5 :
        Bind(IF mtime = None THEN i5 ELSE [i5 EXCEPT !.mtime = mtime], LAMBDA i6 :
        Bind(IF ctime = None THEN i6 ELSE [i6 EXCEPT !.ctime = ctime], LAMBDA i7 :
        Bind(IF crtime = None THEN i7 ELSE [i7 EXCEPT !.crtime = crtime],
             LAMBDA i8 :
          [st |-> "ok",
           fs |-> write_inode_with_csum(fs, [inode EXCEPT !.inode = i8])])))))))))

create(fs, parent_id, name, mode) ==
    Bind(read_inode(fs, parent_id), LAMBDA parent :
      IF ~is_dir(parent.inode) THEN [st |-> "ENOTDIR", fs |-> fs, ret |-> 0]
      ELSE
        Bind(create_inode(fs, mode), LAMBDA c :
          IF c.st # "ok" THEN [st |-> c.st, fs |-> c.fs, ret |-> 0]
          ELSE
            Bind(link_inode(c.fs, parent, c.ref, name), LAMBDA l :
              IF l.st # "ok" THEN [st |-> l.st, fs |-> l.fs, ret |-> 0]
              ELSE [st |-> "ok", fs |-> l.fs, ret |-> c.ref.id])))

\* The bytes a block holds when it is read as file data; bytes of a block
\* that holds directory records are not modelled (-1).
BlockBytes(b) ==
    IF b.kind = "data" THEN b.data
    ELSE IF b.kind = "zero" THEN [i \in 1..BLOCK_SIZE |-> 0]
    ELSE [i \in 1..BLOCK_SIZE |-> -1]

read_offset(b, offset, len) ==
    [i \in 1..len |-> BlockBytes(b)[offset + i]]

\* A block write that copies the data to the start of the block whatever the
\* offset
write_at_block_start(b, offset, data) ==
    [kind |-> "data",
     data |-> [i \in 1..BLOCK_SIZE |->
                 IF i <= Len(data) THEN data[i] ELSE BlockBytes(b)[i]]]

\* Block::write_offset; the slice copy panics past the end of the block.
write_offset(b, offset, data) ==
    [kind |-> "data",
     data |-> [i \in 1..BLOCK_SIZE |->
                 IF i > offset /\ i <= offset + Len(data)
                 THEN data[i - offset] ELSE BlockBytes(b)[i]]]

RECURSIVE read_blocks(_, _, _, _, _)
read_blocks(fs, file, read_size, iblock, buf) ==
    IF Len(buf) >= read_size THEN [st |-> "ok", n |-> Len(buf), buf |-> buf]
    ELSE
      Bind(extent_get_pblock(fs, file, iblock), LAMBDA q :
        IF q.st # "ok" THEN [st |-> "panic", n |-> Len(buf), buf |-> buf]
        ELSE read_blocks(fs, file, read_size, iblock + 1,
                         buf \o read_offset(fs.blk[q.pblock], 0,
                                            Min(BLOCK_SIZE, read_size - Len(buf)))))

read(fs, file_id, offset, buf_len) ==
    Bind(read_inode(fs, file_id), LAMBDA file :
      IF ~is_file(file.inode) THEN [st |-> "EISDIR", n |-> 0, buf |-> <<>>]
      ELSE IF buf_len = 0 THEN [st |-> "ok", n |-> 0, buf |-> <<>>]
      ELSE
        Bind(USub(file.inode.size, offset, 64), LAMBDA rem :
          IF ~rem.ok THEN [st |-> "panic", n |-> 0, buf |-> <<>>]
          ELSE
            Bind(Min(buf_len, rem.v), LAMBDA read_size :
              IF (offset % BLOCK_SIZE) > 0
              THEN
                \* Read first block
                Bind(extent_get_pblock(fs, file, offset \div BLOCK_SIZE), LAMBDA q :
                  IF q.st # "ok" THEN [st |-> "panic", n |-> 0, buf |-> <<>>]
                  ELSE read_blocks(fs, file, read_size, (offset \div BLOCK_SIZE) + 1,
                         read_offset(fs.blk[q.pblock], offset % BLOCK_SIZE,
                                     Min(BLOCK_SIZE - (offset % BLOCK_SIZE),
                                         read_size))))
              ELSE read_blocks(fs, file, read_size, offset \div BLOCK_SIZE, <<>>))))

RECURSIVE write_append(_, _, _)
write_append(fs, file, count) ==
    IF count <= 0 THEN [st |-> "ok", fs |-> fs, ref |-> file]
    ELSE
      Bind(inode_append_block(fs, file), LAMBDA a :
        IF a.st # "ok" THEN [st |-> a.st, fs |-> a.fs, ref |-> a.ref]
        ELSE write_append(a.fs, a.ref, count - 1))

RECURSIVE write_blocks(_, _, _, _, _, _)
write_blocks(fs, file, offset, data, cursor, iblock) ==
    IF cursor >= Len(data) THEN [st |-> "ok", fs |-> fs, cursor |-> cursor]
    ELSE
      Bind(Min(BLOCK_SIZE, Len(data) - cursor), LAMBDA write_len :
        Bind(extent_get_pblock(fs, file, iblock), LAMBDA q :
          IF q.st # "ok" THEN [st |-> q.st, fs |-> fs, cursor |-> cursor]
          ELSE IF ((offset + cursor) % BLOCK_SIZE) + write_len > BLOCK_SIZE
          THEN [st |-> "panic", fs |-> fs, cursor |-> cursor]
          ELSE write_blocks(
                 write_block(fs, q.pblock,
                   write_offset(fs.blk[q.pblock], (offset + cursor) % BLOCK_SIZE,
                                SubSeq(data, cursor + 1, cursor + write_len))),
                 file, offset, data, cursor + write_len, iblock + 1)))

write(fs, file_id, offset, data) ==
    Bind(read_inode(fs, file_id), LAMBDA file :
      IF ~is_file(file.inode) THEN [st |-> "EISDIR", fs |-> fs, ret |-> 0]
      ELSE
        \* Append enough block for writing
        Bind(write_append(fs, file,
               ((offset + Len(data)) \div BLOCK_SIZE) + 1 - file.inode.block_count),
             LAMBDA a :
          IF a.st # "ok" THEN [st |-> a.st, fs |-> a.fs, ret |-> 0]
          ELSE
            Bind(write_blocks(a.fs, a.ref, offset, data, 0, offset \div BLOCK_SIZE),
                 LAMBDA w :
              IF w.st # "ok" THEN [st |-> w.st, fs |-> w.fs, ret |-> 0]
              ELSE
                [st |-> "ok",
                 fs |-> write_inode_with_csum(w.fs,
                          IF offset + w.cursor > a.ref.inode.size
                          THEN [a.ref EXCEPT !.inode.size = offset + w.cursor]
                          ELSE a.ref),
                 ret |-> w.cursor])))

link(fs, child_id, parent_id, name) ==
    Bind(read_inode(fs, parent_id), LAMBDA parent :
      IF ~is_dir(parent.inode) THEN [st |-> "ENOTDIR", fs |-> fs]
      ELSE
        Bind(link_inode(fs, parent, read_inode(fs, child_id), name), LAMBDA l :
          [st |-> l.st, fs |-> l.fs]))

unlink(fs, parent_id, name) ==
    Bind(read_inode(fs, parent_id), LAMBDA parent :
      IF ~is_dir(parent.inode) THEN [st |-> "ENOTDIR", fs |-> fs]
      ELSE
        Bind(ext4_dir_find_entry(fs, parent, name), LAMBDA f :
          IF f.st # "ok" THEN [st |-> f.st, fs |-> fs]
          ELSE unlink_inode(fs, parent, read_inode(fs, f.inode), name)))

mkdir(fs, parent_id, name, mode) ==
    Bind(read_inode(fs, parent_id), LAMBDA parent :
      IF ~is_dir(parent.inode) THEN [st |-> "ENOTDIR", fs |-> fs, ret |-> 0]
      ELSE
        Bind(create_inode(fs, (mode % TYPE_SHIFT) + MODE_DIRECTORY), LAMBDA c :
          IF c.st # "ok" THEN [st |-> c.st, fs |-> c.fs, ret |-> 0]
          ELSE
            Bind(link_inode(c.fs, parent, c.ref, name), LAMBDA l :
              IF l.st # "ok" THEN [st |-> l.st, fs |-> l.fs, ret |-> 0]
              ELSE [st |-> "ok", fs |-> l.fs, ret |-> c.ref.id])))

lookup(fs, parent_id, name) ==
    Bind(read_inode(fs, parent_id), LAMBDA parent :
      IF ~is_dir(parent.inode) THEN [st |-> "ENOTDIR", ret |-> 0]
      ELSE
        Bind(ext4_dir_find_entry(fs, parent, name), LAMBDA f :
          [st |-> f.st, ret |-> f.inode]))

list(fs, id) ==
    Bind(read_inode(fs, id), LAMBDA inode_ref :
      IF file_type(inode_ref.inode.mode) # "Directory"
      THEN [st |-> "ENOTDIR", entries |-> <<>>]
      ELSE dir_get_all_entries(fs, inode_ref))

\* An rmdir that removes the entry and neither frees the child nor gives the
\* parent its link back
rmdir_entry_only(fs, parent_id, name) ==
    Bind(read_inode(fs, parent_id), LAMBDA parent :
      IF ~is_dir(parent.inode) THEN [st |-> "ENOTDIR", fs |-> fs]
      ELSE Bind(dir_remove_entry(fs, parent, name), LAMBDA r :
             [st |-> r.st, fs |-> r.fs]))

rmdir(fs, parent_id, name) ==
    Bind(read_inode(fs, parent_id), LAMBDA parent :
      IF ~is_dir(parent.inode) THEN [st |-> "ENOTDIR", fs |-> fs]
      ELSE
        Bind(ext4_dir_find_entry(fs, parent, name), LAMBDA f :
          IF f.st # "ok" THEN [st |-> f.st, fs |-> fs]
          ELSE
            Bind(read_inode(fs, f.inode), LAMBDA child :
              \* Child must be a directory
              IF ~is_dir(child.inode) THEN [st |-> "ENOTDIR", fs |-> fs]
              ELSE
                \* Child must be empty
                Bind(dir_get_all_entries(fs, child), LAMBDA e :
                  IF e.st # "ok" THEN [st |-> e.st, fs |-> fs]
                  ELSE IF Len(e.entries) > 2 THEN [st |-> "ENOTEMPTY", fs |-> fs]
                  ELSE unlink_inode(fs, parent, child, name)))))

\* A rename that links the new name and leaves the old one in place
rename_link_only(fs, parent_id, name, new_parent_id, new_name) ==
    Bind(ext4_dir_find_entry(fs, read_inode(fs, parent_id), name), LAMBDA f :
      IF f.st # "ok" THEN [st |-> f.st, fs |-> fs]
      ELSE link(fs, f.inode, new_parent_id, new_name))

\* Move a file: no check of a name conflict.  The child that link_inode
\* updated is the one unlink_inode is given; parent was read before the link.
rename(fs, parent_id, name, new_parent_id, new_name) ==
    Bind(read_inode(fs, parent_id), LAMBDA parent :
      IF ~is_dir(parent.inode) THEN [st |-> "ENOTDIR", fs |-> fs]
      ELSE
        Bind(read_inode(fs, new_parent_id), LAMBDA new_parent :
          IF ~is_dir(new_parent.inode) THEN [st |-> "ENOTDIR", fs |-> fs]
          ELSE
            Bind(ext4_dir_find_entry(fs, parent, name), LAMBDA f :
              IF f.st # "ok" THEN [st |-> f.st, fs |-> fs]
              ELSE
                Bind(link_inode(fs, new_parent, read_inode(fs, f.inode),
                                new_name),
                     LAMBDA l :
                  IF l.st # "ok" THEN [st |-> l.st, fs |-> l.fs]
                  ELSE unlink_inode(l.fs, parent, l.child, name)))))

----------------------------------------------------------------------------
(* High-level (path based) operations.  A path is a sequence of            *)
(* characters; "/" separates its components.                                *)

\* str::split("/"): the components between the separators, empty ones kept
RECURSIVE split(_, _)
split(path, cur) ==
    IF path = <<>> THEN <<cur>>
    ELSE IF Head(path) = "/" THEN <<cur>> \o split(Tail(path), <<>>)
    ELSE split(Tail(path), Append(cur, Head(path)))

\* The result of trim_start_matches is dropped: a leading "/" stays.
split_path(path) ==
    IF path = <<>> THEN <<>> ELSE split(path, <<>>)

RECURSIVE join(_)
join(names) ==
    IF names = <<>> THEN <<>>
    ELSE IF Len(names) = 1 THEN names[1]
    ELSE names[1] \o <<"/">> \o join(Tail(names))

\* A resolution that stops after the first component of the path
lookup_first_only(fs, cur, search_path, i) ==
    IF i > Len(search_path) THEN [st |-> "ok", ret |-> cur]
    ELSE lookup(fs, cur, search_path[i])

RECURSIVE lookup_from(_, _, _, _)
lookup_from(fs, cur, search_path, i) ==
    IF i > Len(search_path) THEN [st |-> "ok", ret |-> cur]
    ELSE
      Bind(lookup(fs, cur, search_path[i]), LAMBDA l :
        IF l.st # "ok" THEN l ELSE lookup_from(fs, l.ret, search_path, i + 1))

generic_lookup(fs, root, path) == lookup_from(fs, root, split_path(path), 1)

\* The outcomes after which the process does not go on
Stopped(st) == st \in {"panic", "hang", "garbage"}

\* The status generic_create gives a failed link_inode
LinkFail(st) == IF Stopped(st) THEN st ELSE "ELINKFAIL"

\* The loop of generic_create from component i on, cur the directory reached
RECURSIVE create_from(_, _, _, _, _)
create_from(fs, cur, search_path, i, mode) ==
    IF i > Len(search_path) THEN [st |-> "ok", fs |-> fs, ret |-> cur.id]
    ELSE IF ~is_dir(cur.inode) THEN [st |-> "ENOTDIR", fs |-> fs, ret |-> 0]
    ELSE
      Bind(ext4_dir_find_entry(fs, cur, search_path[i]), LAMBDA f :
        IF f.st = "ok"
        THEN create_from(fs, read_inode(fs, f.inode), search_path, i + 1, mode)
        ELSE IF f.st # "ENOENT" THEN [st |-> f.st, fs |-> fs, ret |-> 0]
        ELSE
          Bind(create_inode(fs, IF i = Len(search_path) THEN mode
                                ELSE MODE_DIRECTORY + ALL_RWX),
               LAMBDA c :
            IF c.st # "ok" THEN [st |-> c.st, fs |-> c.fs, ret |-> 0]
            ELSE
              Bind(link_inode(c.fs, cur, c.ref, search_path[i]), LAMBDA l :
                IF l.st # "ok"
                THEN [st |-> LinkFail(l.st), fs |-> l.fs, ret |-> 0]
                ELSE create_from(l.fs, l.child, search_path, i + 1, mode))))

generic_create(fs, root, path, mode) ==
    create_from(fs, read_inode(fs, root), split_path(path), 1, mode)

generic_remove(fs, root, path) ==
    Bind(split_path(path), LAMBDA search_path :
      IF Len(search_path) = 0 THEN [st |-> "panic", fs |-> fs]
      ELSE
        Bind(generic_lookup(fs, root,
                            join(SubSeq(search_path, 1, Len(search_path) - 1))),
             LAMBDA p :
          IF p.st # "ok" THEN [st |-> p.st, fs |-> fs]
          ELSE
            Bind(generic_lookup(fs, p.ret, search_path[Len(search_path)]),
                 LAMBDA c :
              IF c.st # "ok" THEN [st |-> c.st, fs |-> fs]
              ELSE
                Bind(read_inode(fs, c.ret), LAMBDA child :
                  Bind(IF is_dir(child.inode) THEN dir_get_all_entries(fs, child)
                       ELSE [st |-> "ok", entries |-> <<>>],
                       LAMBDA e :
                    IF e.st # "ok" THEN [st |-> e.st, fs |-> fs]
                    ELSE IF Len(e.entries) > 2
                    THEN [st |-> "ENOTEMPTY", fs |-> fs]
                    ELSE unlink_inode(fs, read_inode(fs, p.ret), child,
                                      search_path[Len(search_path)]))))))

----------------------------------------------------------------------------
(* Initial state: a freshly formatted image whose only object is the root  *)
(* directory, loaded by either build of the program.                        *)

RootBlock == MetaBlocks

RootInode ==
    [mode |-> MODE_DIRECTORY + ALL_RWX, size |-> BLOCK_SIZE, link_count |-> 2,
     block_count |-> BLOCK_SIZE \div INODE_BLOCK_SIZE,
     depth |-> 0, max_entries |-> RootMaxEntries,
     extents |-> <<[first_block |-> 0, block_count |-> 1,
                    start_pblock |-> RootBlock]>>,
     csum |-> TRUE,
     uid |-> 0, l_uid_hi |-> 0, gid |-> 0, l_gid_hi |-> 0,
     atime |-> 0, mtime |-> 0, ctime |-> 0, crtime |-> 0]

RootDirBlock ==
    DirBlock(<<[inode |-> EXT4_ROOT_INO, rec_len |-> RoundUp4(DirEntryHeaderSize + 1),
                name |-> <<".">>, ft |-> "Directory"],
               [inode |-> EXT4_ROOT_INO,
                rec_len |-> BLOCK_SIZE - DirEntryTailSize
                            - RoundUp4(DirEntryHeaderSize + 1),
                name |-> <<".", ".">>, ft |-> "Directory"],
               TailRec>>)

\* The reference array of an inode: the bytes its writes stored, and whether
\* every write to it succeeded
NoWrites == [ok |-> TRUE, bytes |-> <<>>]

NoPre == [free_blocks |-> 0, cattr |-> NoAttr, cblocks |-> <<>>, pattr |-> NoAttr,
          present |-> FALSE]

\* StateExt4FuseFs::new: no saved state, no open directory
SnapKeys == 1..MaxKeys
NoState == [saved |-> FALSE]
NoFuse == [states |-> [k \in SnapKeys |-> NoState], dirs |-> <<>>, next_did |-> 0]

NoOp == [op |-> "none", p |-> 0, c |-> 0, name |-> <<>>, arg |-> 0, len |-> 0,
         data |-> <<>>, st |-> "ok", ret |-> 0, pre |-> NoPre]

Init ==
    /\ super_block = [free_blocks_count |-> BgCount * (BlocksPerGroup - MetaBlocks) - 1,
                      free_inodes_count |-> BgCount * InodesPerGroup - 2]
    /\ block_groups = [g \in Groups |->
          IF g = 0
          THEN [free_blocks_count |-> BlocksPerGroup - MetaBlocks - 1,
                free_inodes_count |-> InodesPerGroup - 2,
                used_dirs_count |-> 1, itable_unused |-> InodesPerGroup - 2]
          ELSE [free_blocks_count |-> BlocksPerGroup - MetaBlocks,
                free_inodes_count |-> InodesPerGroup,
                used_dirs_count |-> 0, itable_unused |-> InodesPerGroup]]
    /\ block_bitmaps = [g \in Groups |-> [b \in 0..(BlocksPerGroup - 1) |->
          b < MetaBlocks \/ (g = 0 /\ b = RootBlock)]]
    /\ inode_bitmaps = [g \in Groups |-> [i \in 0..(InodesPerGroup - 1) |->
          g = 0 /\ i < EXT4_ROOT_INO]]
    /\ inode_table = [i \in InodeIds |->
          IF i = EXT4_ROOT_INO THEN RootInode ELSE ZeroInode]
    /\ device = [b \in PBlockIds |->
          IF b = RootBlock THEN RootDirBlock ELSE ZeroBlock]
    /\ build \in {"debug", "release"}
    /\ halted = "run"
    /\ last = NoOp
    /\ before = NoOp
    /\ shadow = [i \in InodeIds |-> NoWrites]
    /\ nops = 0
    /\ sb_block = super_block
    /\ fuse = NoFuse

\* An image with a file: "a" in the root directory, inode 3, whose one extent
\* holds every data block of block group 1
FillBlocks == BlocksPerGroup - MetaBlocks
FillInode ==
    [ZeroInode EXCEPT !.mode = MODE_FILE + 420, !.size = FillBlocks * BLOCK_SIZE,
                      !.link_count = 1,
                      !.block_count = FillBlocks * (BLOCK_SIZE \div INODE_BLOCK_SIZE),
                      !.max_entries = RootMaxEntries,
                      !.extents = <<[first_block |-> 0, block_count |-> FillBlocks,
                                     start_pblock |-> BlocksPerGroup + MetaBlocks]>>,
                      !.csum = TRUE]

FillDirBlock ==
    DirBlock(<<[inode |-> EXT4_ROOT_INO, rec_len |-> RoundUp4(DirEntryHeaderSize + 1),
                name |-> <<".">>, ft |-> "Directory"],
               [inode |-> EXT4_ROOT_INO, rec_len |-> RoundUp4(DirEntryHeaderSize + 2),
                name |-> <<".", ".">>, ft |-> "Directory"],
               [inode |-> EXT4_ROOT_INO + 1,
                rec_len |-> BLOCK_SIZE - DirEntryTailSize
                            - RoundUp4(DirEntryHeaderSize + 1)
                            - RoundUp4(DirEntryHeaderSize + 2),
                name |-> <<"a">>, ft |-> "RegularFile"],
               TailRec>>)

\* The image with the file, loaded by either build: block group 0 has no free
\* inode and block group 1 has no free block
InitFull ==
    /\ super_block = [free_blocks_count |-> BlocksPerGroup - MetaBlocks - 1,
                      free_inodes_count |-> InodesPerGroup]
    /\ block_groups = [g \in Groups |->
          IF g = 0
          THEN [free_blocks_count |-> BlocksPerGroup - MetaBlocks - 1,
                free_inodes_count |-> 0,
                used_dirs_count |-> 1, itable_unused |-> 0]
          ELSE [free_blocks_count |-> 0,
                free_inodes_count |-> InodesPerGroup,
                used_dirs_count |-> 0, itable_unused |-> InodesPerGroup]]
    /\ block_bitmaps = [g \in Groups |-> [b \in 0..(BlocksPerGroup - 1) |->
          IF g = 0 THEN b <= RootBlock ELSE TRUE]]
    /\ inode_bitmaps = [g \in Groups |-> [i \in 0..(InodesPerGroup - 1) |->
          g = 0]]
    /\ inode_table = [i \in InodeIds |->
          IF i = EXT4_ROOT_INO THEN RootInode
          ELSE IF i = EXT4_ROOT_INO + 1 THEN FillInode ELSE ZeroInode]
    /\ device = [b \in PBlockIds |->
          IF b = RootBlock THEN FillDirBlock ELSE ZeroBlock]
    /\ build \in {"debug", "release"}
    /\ halted = "run"
    /\ last = NoOp
    /\ before = NoOp
    /\ shadow = [i \in InodeIds |-> NoWrites]
    /\ nops = 0
    /\ sb_block = super_block
    /\ fuse = NoFuse

----------------------------------------------------------------------------
(* Inputs of the operations *)

OpIds == EXT4_ROOT_INO..(InodesPerGroup + 1)
Names == {<<"a">>, <<"b">>}
\* The names given to enough entries to fill a directory block
DirNames == Names \cup {<<"c">>}
Paths == {<<"a">>, <<"a", "/", "a">>, <<"/", "a">>, <<>>}
FileMode == MODE_FILE + 420
DirMode == MODE_DIRECTORY + 493
CreateModes == {FileMode, DirMode}
WriteOffsets == {0, 1, BLOCK_SIZE}
WriteLens == {1, BLOCK_SIZE, BLOCK_SIZE + 1, 2 * BLOCK_SIZE}
ReadOffsets == {0, 1, 2, BLOCK_SIZE + 1}
ReadLens == {0, 2, BLOCK_SIZE + 1}
\* The directories paths start in and files are moved between
MoveDirs == {EXT4_ROOT_INO, EXT4_ROOT_INO + 1}

\* The bytes of the n-th write: every position and every write differ
WriteData(len) == [i \in 1..len |-> 100 * (nops + 1) + i]

\* The reference array after writing data at offset (a gap reads as zero)
Overlay(old, offset, data) ==
    [i \in 1..(IF Len(old) > offset + Len(data) THEN Len(old)
               ELSE offset + Len(data)) |->
        IF i > offset /\ i <= offset + Len(data) THEN data[i - offset]
        ELSE IF i <= Len(old) THEN old[i] ELSE 0]

Attr(fs, id) == IF id \in InodeIds THEN getattr(fs, id).ret ELSE NoAttr

\* What is observed of the state an operation starts in
Pre(fs, parent_id, child_id, name) ==
    [free_blocks |-> fs.sb.free_blocks_count,
     present |-> name \in DirNames /\ lookup(fs, parent_id, name).st = "ok",
     cattr |-> Attr(fs, child_id),
     cblocks |-> IF child_id \in InodeIds
                 THEN extent_get_all_pblocks(read_inode(fs, child_id))
                 ELSE <<>>,
     pattr |-> Attr(fs, parent_id)]


\* The step of an operation: the file system it leaves and its summary
CommitAll(fs2, summary, sbb, f) ==
    /\ super_block' = fs2.sb
    /\ block_groups' = fs2.bg
    /\ block_bitmaps' = fs2.bbm
    /\ inode_bitmaps' = fs2.ibm
    /\ inode_table' = fs2.ino
    /\ device' = fs2.blk
    /\ halted' = IF Stopped(summary.st) THEN summary.st ELSE "run"
    /\ before' = last
    /\ last' = summary
    /\ shadow' = [i \in InodeIds |->
          IF fs2.ino[i].mode = 0 THEN NoWrites
          ELSE IF summary.op = "write" /\ summary.p = i
               THEN IF summary.st = "ok"
                    THEN [shadow[i] EXCEPT
                            !.bytes = Overlay(@, summary.arg, summary.data)]
                    ELSE [shadow[i] EXCEPT !.ok = FALSE]
               ELSE IF summary.op = "extent_get_pblock_create" /\ summary.p = i
                       /\ summary.st = "ok"
                       /\ \A k \in DOMAIN shadow[i].bytes :
                              shadow[i].bytes[k] # <<summary.arg, summary.ret>>
               THEN [shadow[i] EXCEPT
                       !.bytes = Append(@, <<summary.arg, summary.ret>>)]
               ELSE shadow[i]]
    /\ nops' = nops + 1
    /\ sb_block' = sbb
    /\ fuse' = f
    /\ UNCHANGED build

\* The step of an operation of the file system: every change of the super
\* block in memory is followed by write_super_block, and nothing else
\* writes the super block
Commit(fs2, summary) ==
    CommitAll(fs2, summary,
              IF fs2.sb # super_block THEN fs2.sb ELSE sb_block, fuse)

----------------------------------------------------------------------------
(* Actions: one per operation of the file system *)

\* The inode a name resolves to in a directory, 0 when it does not resolve
Target(fs, parent_id, name) ==
    Bind(lookup(fs, parent_id, name), LAMBDA l : IF l.st = "ok" THEN l.ret ELSE 0)

\* The inode a path resolves to from a directory, 0 when it does not resolve
PathTarget(fs, root, path) ==
    Bind(generic_lookup(fs, root, path), LAMBDA l : IF l.st = "ok" THEN l.ret ELSE 0)

\* The step of an operation that returned r
Done(r, op, p, c, name, arg, data, ret) ==
    Commit(r.fs,
           [op |-> op, p |-> p, c |-> c, name |-> name, arg |-> arg,
            len |-> Len(data), data |-> data, st |-> r.st, ret |-> ret,
            pre |-> Pre(Cur, p, c, name)])

\* The step of an operation that returned r with a value
DoneRet(r, op, p, c, name, arg, data) ==
    Done(r, op, p, c, name, arg, data, r.ret)

\* The step of a read that returned r: the file system is left as it is
DoneRead(r, f, off, len) ==
    Commit(Cur,
           [op |-> "read", p |-> f, c |-> f, name |-> <<>>, arg |-> off,
            len |-> len, data |-> r.buf, st |-> r.st, ret |-> r.n,
            pre |-> Pre(Cur, f, f, <<>>)])

\* The process runs and has operations left
Running(limit) == halted = "run" /\ nops < limit

Create ==
    \E p \in OpIds, n \in Names, m \in CreateModes :
        /\ Running(MaxOps)
        /\ DoneRet(create(Cur, p, n, m), "create", p, 0, n, m, <<>>)

Mkdir ==
    \E p \in OpIds, n \in Names :
        /\ Running(MaxOps)
        /\ DoneRet(mkdir(Cur, p, n, DirMode), "mkdir", p, 0, n, DirMode, <<>>)

Link ==
    \E c \in OpIds, p \in OpIds, n \in Names :
        /\ Running(MaxOps)
        /\ Done(link(Cur, c, p, n), "link", p, c, n, 0, <<>>, 0)

Unlink ==
    \E p \in OpIds, n \in Names :
        /\ Running(MaxOps)
        /\ Done(unlink(Cur, p, n), "unlink", p, Target(Cur, p, n), n, 0, <<>>, 0)

Rmdir ==
    \E p \in OpIds, n \in Names :
        /\ Running(MaxOps)
        /\ Done(rmdir(Cur, p, n), "rmdir", p, Target(Cur, p, n), n, 0, <<>>, 0)

GenericRemove ==
    \E root \in MoveDirs, path \in Paths :
        /\ Running(MaxOps)
        /\ Done(generic_remove(Cur, root, path), "generic_remove",
                root, PathTarget(Cur, root, path), path, 0, <<>>, 0)

\* A one byte write to the start of an object
WriteByte ==
    \E f \in OpIds :
        /\ Running(MaxOps)
        /\ DoneRet(write(Cur, f, 0, WriteData(1)), "write", f, f, <<>>, 0,
                   WriteData(1))

Next ==
    \/ Create
    \/ Mkdir
    \/ Link
    \/ Unlink
    \/ Rmdir
    \/ GenericRemove
    \/ WriteByte

Spec == Init /\ [][Next]_vars

----------------------------------------------------------------------------
(* The read/write specification: one file is created in the root directory *)
(* and then written and read at block-aligned and unaligned positions.      *)

RWIds == {EXT4_ROOT_INO, EXT4_ROOT_INO + 1}

CreateFile ==
    /\ Running(MaxRWOps)
    /\ nops = 0
    /\ sb_block = super_block
    /\ fuse = NoFuse
    /\ DoneRet(create(Cur, EXT4_ROOT_INO, <<"a">>, FileMode), "create",
               EXT4_ROOT_INO, 0, <<"a">>, FileMode, <<>>)

Write ==
    \E f \in RWIds, off \in WriteOffsets, len \in WriteLens :
        /\ Running(MaxRWOps)
        /\ DoneRet(write(Cur, f, off, WriteData(len)), "write", f, f, <<>>, off,
                   WriteData(len))

Read ==
    \E f \in RWIds, off \in ReadOffsets, len \in ReadLens :
        /\ Running(MaxRWOps)
        /\ DoneRead(read(Cur, f, off, len), f, off, len)

NextRW ==
    \/ CreateFile
    \/ Write
    \/ Read

SpecRW == Init /\ [][NextRW]_vars

----------------------------------------------------------------------------
(* The operations that allocate and free, on the image whose block group 1 *)
(* is full                                                                  *)

NextFull ==
    \/ Create
    \/ Mkdir
    \/ Unlink
    \/ WriteByte

SpecFull == InitFull /\ [][NextFull]_vars

----------------------------------------------------------------------------
(* The extent tree of one file: the mapping of a logical block is created   *)
(* and queried on images whose block group 0 has room for the tree.  The    *)
(* file is "a" in the root directory, inode 3, either without a block or    *)
(* with a tree of depth 1 whose first leaf is full and whose root holds two *)
(* leaves or is full.                                                       *)

ExtFile == EXT4_ROOT_INO + 1
ExtLblocks == 0..MaxLblock

\* The tree of depth 1 with n leaves: leaf k in block RootBlock + k, the
\* data blocks behind the leaves; leaf 1 maps blocks 0 .. 3 and is full, leaf
\* k > 1 maps block k + 3, so that block 4 is the one hole under leaf 1.
TreeLeafBlock(k) == RootBlock + k
TreeDataBlock(n, j) == RootBlock + n + j
TreeLeafLblocks(k) ==
    IF k = 1 THEN [j \in 1..NodeMaxEntries |-> j - 1] ELSE <<k + NodeMaxEntries - 1>>
TreeLeaf(n, k) ==
    ExtentBlock([init(0, 0) EXCEPT !.entries =
        [j \in 1..Len(TreeLeafLblocks(k)) |->
            [first_block |-> TreeLeafLblocks(k)[j], block_count |-> 1,
             start_pblock |-> TreeDataBlock(n, IF k = 1 THEN j
                                               ELSE k + NodeMaxEntries - 1)]]])
TreeUsedBlocks(n) == TreeDataBlock(n, n + NodeMaxEntries - 1) + 1

EmptyFileInode ==
    [ZeroInode EXCEPT !.mode = MODE_FILE + 420, !.link_count = 1,
                      !.max_entries = RootMaxEntries, !.csum = TRUE]

TreeFileInode(n) ==
    [EmptyFileInode EXCEPT
        !.size = (MaxLblock + 1) * BLOCK_SIZE,
        !.block_count = (TreeUsedBlocks(n) - RootBlock - 1)
                        * (BLOCK_SIZE \div INODE_BLOCK_SIZE),
        !.depth = 1,
        !.extents = [k \in 1..n |->
                        ExtentIndex_new(TreeLeafLblocks(k)[1], TreeLeafBlock(k))]]

TreeBlocks(n) ==
    [b \in TreeLeafBlock(1)..TreeLeafBlock(n) |-> TreeLeaf(n, b - RootBlock)]

\* used = number of leading blocks of group 0 in use
ExtImage(used, file, blocks) ==
    /\ super_block = [free_blocks_count |-> BgCount * ExtBlocksPerGroup
                                            - MetaBlocks - used,
                      free_inodes_count |-> BgCount * InodesPerGroup - 3]
    /\ block_groups = [g \in Groups |->
          IF g = 0
          THEN [free_blocks_count |-> ExtBlocksPerGroup - used,
                free_inodes_count |-> InodesPerGroup - 3,
                used_dirs_count |-> 1, itable_unused |-> InodesPerGroup - 3]
          ELSE [free_blocks_count |-> ExtBlocksPerGroup - MetaBlocks,
                free_inodes_count |-> InodesPerGroup,
                used_dirs_count |-> 0, itable_unused |-> InodesPerGroup]]
    /\ block_bitmaps = [g \in Groups |-> [b \in 0..(ExtBlocksPerGroup - 1) |->
          IF g = 0 THEN b < used ELSE b < MetaBlocks]]
    /\ inode_bitmaps = [g \in Groups |-> [i \in 0..(InodesPerGroup - 1) |->
          g = 0 /\ i < ExtFile]]
    /\ inode_table = [i \in InodeIds |->
          IF i = EXT4_ROOT_INO THEN RootInode
          ELSE IF i = ExtFile THEN file ELSE ZeroInode]
    /\ device = [b \in 0..(BgCount * ExtBlocksPerGroup - 1) |->
          IF b = RootBlock THEN FillDirBlock
          ELSE IF b \in DOMAIN blocks THEN blocks[b] ELSE ZeroBlock]

InitExt ==
    /\ \/ ExtImage(RootBlock + 1, EmptyFileInode, <<>>)
       \/ \E n \in {2, RootMaxEntries} :
             ExtImage(TreeUsedBlocks(n), TreeFileInode(n), TreeBlocks(n))
    /\ build \in {"debug", "release"}
    /\ halted = "run"
    /\ last = NoOp
    /\ before = NoOp
    /\ shadow = [i \in InodeIds |-> NoWrites]
    /\ nops = 0
    /\ sb_block = super_block
    /\ fuse = NoFuse

\* extent_get_pblock_create for one block of the file
ExtentCreate ==
    \E iblock \in ExtLblocks :
        /\ Running(MaxExtOps)
        /\ Bind(extent_get_pblock_create(Cur, read_inode(Cur, ExtFile), iblock, 1),
                LAMBDA r : Done(r, "extent_get_pblock_create", ExtFile, ExtFile,
                                <<>>, iblock, <<>>, r.pblock))

\* extent_get_pblock of the file
ExtentQuery ==
    \E iblock \in ExtLblocks :
        /\ Running(MaxExtOps)
        /\ Bind(extent_get_pblock(Cur, read_inode(Cur, ExtFile), iblock),
                LAMBDA q : Done([st |-> q.st, fs |-> Cur], "extent_get_pblock",
                                ExtFile, ExtFile, <<>>, iblock, <<>>, q.pblock))

NextExt ==
    \/ ExtentCreate
    \/ ExtentQuery

SpecExt == InitExt /\ [][NextExt]_vars

----------------------------------------------------------------------------
(* Writes that fill the extent root of one file: the file "a" of the root   *)
(* directory, inode 3, on an image whose block group 0 has room for the     *)
(* data blocks of a full extent root and one block more, and in the larger  *)
(* image for the two leaves of a split besides.  The file is empty, or it   *)
(* has been grown by writes until its extent root is full.                  *)

SumGroupSizes == {MetaBlocks + 1 + RootMaxEntries + 1,
                  MetaBlocks + 1 + RootMaxEntries + 3}

\* The image after the file was created
SumFresh(bpg) ==
    [sb |-> [free_blocks_count |-> BgCount * (bpg - MetaBlocks) - 1,
             free_inodes_count |-> BgCount * InodesPerGroup - 3],
     bg |-> [g \in Groups |->
          IF g = 0
          THEN [free_blocks_count |-> bpg - MetaBlocks - 1,
                free_inodes_count |-> InodesPerGroup - 3,
                used_dirs_count |-> 1, itable_unused |-> InodesPerGroup - 3]
          ELSE [free_blocks_count |-> bpg - MetaBlocks,
                free_inodes_count |-> InodesPerGroup,
                used_dirs_count |-> 0, itable_unused |-> InodesPerGroup]],
     bbm |-> [g \in Groups |-> [b \in 0..(bpg - 1) |->
          b < MetaBlocks \/ (g = 0 /\ b = RootBlock)]],
     ibm |-> [g \in Groups |-> [i \in 0..(InodesPerGroup - 1) |->
          g = 0 /\ i < ExtFile]],
     ino |-> [i \in InodeIds |->
          IF i = EXT4_ROOT_INO THEN RootInode
          ELSE IF i = ExtFile THEN EmptyFileInode ELSE ZeroInode],
     blk |-> [b \in 0..(BgCount * bpg - 1) |->
          IF b = RootBlock THEN FillDirBlock ELSE ZeroBlock]]

\* The growth of the file: a one-byte write beyond the block count appends
\* the block after the last byte, a one-byte write at the end of that block
\* moves the size to its end.
SumGrowth ==
    <<BLOCK_SIZE - 1,
      3 * BLOCK_SIZE, 2 * BLOCK_SIZE - 1,
      5 * BLOCK_SIZE, 3 * BLOCK_SIZE - 1,
      7 * BLOCK_SIZE, 4 * BLOCK_SIZE - 1>>

\* The image after the writes of the bytes <<n>> at the offsets SumGrowth[n]:
\* the extent root is full, each block ends with the byte written to it
SumGrown(bpg) ==
    [sb |-> [free_blocks_count |-> BgCount * (bpg - MetaBlocks) - 1 - RootMaxEntries,
             free_inodes_count |-> BgCount * InodesPerGroup - 3],
     bg |-> [SumFresh(bpg).bg EXCEPT
               ![0].free_blocks_count = bpg - MetaBlocks - 1 - RootMaxEntries],
     bbm |-> [g \in Groups |-> [b \in 0..(bpg - 1) |->
          b < MetaBlocks \/ (g = 0 /\ b <= RootBlock + RootMaxEntries)]],
     ibm |-> SumFresh(bpg).ibm,
     ino |-> [SumFresh(bpg).ino EXCEPT ![ExtFile] =
          [EmptyFileInode EXCEPT
             !.size = RootMaxEntries * BLOCK_SIZE,
             !.block_count = 2 * RootMaxEntries + 1,
             !.extents = [j \in 1..RootMaxEntries |->
                            [first_block |-> j - 1, block_count |-> 1,
                             start_pblock |-> RootBlock + j]]]],
     blk |-> [b \in 0..(BgCount * bpg - 1) |->
          IF b = RootBlock THEN FillDirBlock
          ELSE IF b > RootBlock /\ b <= RootBlock + RootMaxEntries
               THEN write_offset(ZeroBlock, BLOCK_SIZE - 1,
                                 <<2 * (b - RootBlock) - 1>>)
               ELSE ZeroBlock]]

InitSum ==
    /\ \E bpg \in SumGroupSizes :
         \E img \in {SumFresh(bpg), SumGrown(bpg)} :
            /\ super_block = img.sb
            /\ block_groups = img.bg
            /\ block_bitmaps = img.bbm
            /\ inode_bitmaps = img.ibm
            /\ inode_table = img.ino
            /\ device = img.blk
    /\ build \in {"debug", "release"}
    /\ halted = "run"
    /\ last = NoOp
    /\ before = NoOp
    /\ shadow = [i \in InodeIds |-> NoWrites]
    /\ nops = 0
    /\ sb_block = super_block
    /\ fuse = NoFuse

\* A byte in the first block, in the block after a full extent root, and
\* beyond the block count of the grown file
SumOffsets == {0, RootMaxEntries * BLOCK_SIZE, (2 * RootMaxEntries + 1) * BLOCK_SIZE}

WriteFar ==
    \E off \in SumOffsets, len \in {1, BLOCK_SIZE} :
        /\ Running(MaxOps)
        /\ DoneRet(write(Cur, ExtFile, off, WriteData(len)), "write", ExtFile,
                   ExtFile, <<>>, off, WriteData(len))

UnlinkFile ==
    /\ Running(MaxOps)
    /\ Done(unlink(Cur, EXT4_ROOT_INO, <<"a">>), "unlink", EXT4_ROOT_INO,
            Target(Cur, EXT4_ROOT_INO, <<"a">>), <<"a">>, 0, <<>>, 0)

NextSum ==
    \/ WriteFar
    \/ UnlinkFile

SpecSum == InitSum /\ [][NextSum]_vars

----------------------------------------------------------------------------
(* The inode table as bytes: the records of the inodes are written back to *)
(* the blocks of the table of their group.  A table block holds            *)
(* SlotsPerBlock records of the smallest inode size; a block of the table  *)
(* is the sequence of its bytes.                                           *)

EXT4_GOOD_OLD_INODE_SIZE == 128

\* The widths of the fields of struct Inode, in declaration order (repr(C),
\* no padding): mode, uid, size, atime, ctime, mtime, dtime, gid,
\* link_count, block_count, flags, osd1, block, generation, file_acl,
\* size_hi, faddr, osd2, extra_isize, checksum_hi, ctime_extra,
\* mtime_extra, atime_extra, crtime, crtime_extra, version_hi, projid
InodeFieldBytes ==
    <<2, 2, 4, 4, 4, 4, 4, 2, 2, 4, 4, 4, 60, 4, 4, 4, 4, 12,
      2, 2, 4, 4, 4, 4, 4, 4, 4>>

\* Offset of the n-th field of struct Inode
RECURSIVE InodeFieldOffset(_)
InodeFieldOffset(n) ==
    IF n <= 1 THEN 0 ELSE InodeFieldOffset(n - 1) + InodeFieldBytes[n - 1]

\* size_of::<Inode>()
InodeStructBytes == InodeFieldOffset(Len(InodeFieldBytes) + 1)

\* The bytes of osd2.l_checksum_lo (the fifth u16 of the 18th field) and of
\* checksum_hi (the 20th field)
ChecksumLoBytes == {InodeFieldOffset(18) + 8, InodeFieldOffset(18) + 9}
ChecksumHiBytes == {InodeFieldOffset(20), InodeFieldOffset(20) + 1}

TableBlockSize == SlotsPerBlock * EXT4_GOOD_OLD_INODE_SIZE
TableBlocksPerGroup == 2
SlotInodeSizes == {EXT4_GOOD_OLD_INODE_SIZE, 2 * EXT4_GOOD_OLD_INODE_SIZE}
SlotIds == 1..(BgCount * SlotsPerBlock)

\* InodeRef::disk_pos: the block and the offset in it of the record
disk_pos(sb, bgs, inode_id, block_size) ==
    LET group == (inode_id - 1) \div sb.inodes_per_group
        index == (inode_id - 1) % sb.inodes_per_group
    IN [block_id |-> bgs[group].inode_table_first_block
                     + (index * sb.inode_size) \div block_size,
        offset |-> (index * sb.inode_size) % block_size]

\* The bytes of an in-memory inode all of whose bytes are fill, after
\* set_checksum stored the checksum c when one is given (c # 0)
inode_to_bytes(sb, fill, c) ==
    [k \in 1..InodeStructBytes |->
        IF c # 0 /\ (k - 1) \in ChecksumLoBytes THEN c
        ELSE IF c # 0 /\ sb.inode_size > 128 /\ (k - 1) \in ChecksumHiBytes THEN c
        ELSE fill]

\* InodeRef::sync_to_disk_without_csum: read the block, copy the bytes of
\* the struct to the offset (the slice copy panics past the end of the
\* block), write the block.  Result: [st, blk]
sync_to_disk_without_csum(blk, sb, bgs, id, bytes) ==
    Bind(disk_pos(sb, bgs, id, TableBlockSize), LAMBDA pos :
      IF pos.offset + Len(bytes) > TableBlockSize
      THEN [st |-> "panic", blk |-> blk]
      ELSE [st |-> "ok",
            blk |-> [blk EXCEPT ![pos.block_id].data =
                       [k \in 1..TableBlockSize |->
                          IF k > pos.offset /\ k <= pos.offset + Len(bytes)
                          THEN bytes[k - pos.offset] ELSE @[k]]]])

\* InodeRef::sync_to_disk_with_csum
sync_to_disk_with_csum(blk, sb, bgs, id, fill, c) ==
    sync_to_disk_without_csum(blk, sb, bgs, id, inode_to_bytes(sb, fill, c))

\* The inode_size bytes of the record of an inode in the table
SlotBytes(blk, sb, bgs, id) ==
    Bind(disk_pos(sb, bgs, id, TableBlockSize), LAMBDA pos :
      [k \in 1..sb.inode_size |-> blk[pos.block_id].data[pos.offset + k]])

InitSlot ==
    /\ \E s \in SlotInodeSizes :
          super_block = [free_blocks_count |-> 0, free_inodes_count |-> 0,
                         inode_size |-> s, inodes_per_group |-> SlotsPerBlock]
    /\ block_groups = [g \in Groups |->
          [free_blocks_count |-> 0, free_inodes_count |-> 0,
           used_dirs_count |-> 0, itable_unused |-> 0,
           inode_table_first_block |-> g * TableBlocksPerGroup]]
    /\ block_bitmaps = <<>>
    /\ inode_bitmaps = <<>>
    /\ inode_table = <<>>
    /\ device = [b \in 0..(BgCount * TableBlocksPerGroup - 1) |->
          [kind |-> "itable", data |-> [k \in 1..TableBlockSize |-> 0]]]
    /\ build = "release"
    /\ halted = "run"
    /\ last = NoOp
    /\ before = NoOp
    /\ shadow = <<>>
    /\ nops = 0
    /\ sb_block = super_block
    /\ fuse = NoFuse

\* The step of a write-back of the record of inode id that returned r
SlotDone(r, op, id) ==
    /\ device' = r.blk
    /\ halted' = IF Stopped(r.st) THEN r.st ELSE "run"
    /\ before' = last
    /\ last' = [NoOp EXCEPT !.op = op, !.p = id, !.st = r.st]
    /\ nops' = nops + 1
    /\ UNCHANGED <<super_block, block_groups, block_bitmaps, inode_bitmaps,
                   inode_table, build, shadow, sb_block, fuse>>

\* The n-th write-back stores the byte n in every field, and the byte
\* n + MaxSlotOps as checksum
SyncWithoutCsum ==
    \E id \in SlotIds :
        /\ Running(MaxSlotOps)
        /\ SlotDone(sync_to_disk_without_csum(device, super_block, block_groups, id,
                       inode_to_bytes(super_block, nops + 1, 0)),
                    "sync_to_disk_without_csum", id)

SyncWithCsum ==
    \E id \in SlotIds :
        /\ Running(MaxSlotOps)
        /\ SlotDone(sync_to_disk_with_csum(device, super_block, block_groups, id,
                       nops + 1, nops + 1 + MaxSlotOps),
                    "sync_to_disk_with_csum", id)

NextSlot ==
    \/ SyncWithoutCsum
    \/ SyncWithCsum

SpecSlot == InitSlot /\ [][NextSlot]_vars

----------------------------------------------------------------------------
(* Attributes: setattr on the root, on a file and on an inode never made   *)

\* The values setattr is given: mode, uid, gid, size, atime, mtime, ctime,
\* crtime.  A uid and a gid with high bits, times that differ.
AllGiven == <<FileMode, Modulus(16) + 1, Modulus(16) + 2, 5, 7, 8, 9, 10>>
NoneGiven == <<None, None, None, None, None, None, None, None>>

\* Nothing given, one attribute given, or all of them
AttrArgs ==
    {NoneGiven, AllGiven, [NoneGiven EXCEPT ![1] = DirMode],
     [NoneGiven EXCEPT ![4] = 0]}
      \cup {[NoneGiven EXCEPT ![k] = AllGiven[k]] : k \in 1..8}

Setattr ==
    \E id \in OpIds, a \in AttrArgs :
        /\ Running(MaxOps)
        /\ Done(setattr(Cur, id, a[1], a[2], a[3], a[4], a[5], a[6], a[7], a[8]),
                "setattr", id, id, <<>>, 0, a, 0)

NextAttr ==
    \/ CreateFile
    \/ Setattr

SpecAttr == Init /\ [][NextAttr]_vars

----------------------------------------------------------------------------
(* One directory filled and emptied: create and unlink of files in the     *)
(* root directory                                                           *)

CreateEntry ==
    \E n \in DirNames :
        /\ Running(MaxOps)
        /\ DoneRet(create(Cur, EXT4_ROOT_INO, n, FileMode), "create",
                   EXT4_ROOT_INO, 0, n, FileMode, <<>>)

UnlinkEntry ==
    \E n \in DirNames :
        /\ Running(MaxOps)
        /\ Done(unlink(Cur, EXT4_ROOT_INO, n), "unlink", EXT4_ROOT_INO,
                Target(Cur, EXT4_ROOT_INO, n), n, 0, <<>>, 0)

NextDir ==
    \/ CreateEntry
    \/ UnlinkEntry

SpecDir == Init /\ [][NextDir]_vars

\* An image whose root directory another implementation has used: "b" and
\* "c" were created and "b" removed by merging its record into "..", which
\* is left with the room of one more entry; "c" is inode 3, an empty file.
MergedDirBlock ==
    DirBlock(<<[inode |-> EXT4_ROOT_INO, rec_len |-> RoundUp4(DirEntryHeaderSize + 1),
                name |-> <<".">>, ft |-> "Directory"],
               [inode |-> EXT4_ROOT_INO,
                rec_len |-> 2 * RoundUp4(DirEntryHeaderSize + 2),
                name |-> <<".", ".">>, ft |-> "Directory"],
               [inode |-> EXT4_ROOT_INO + 1,
                rec_len |-> BLOCK_SIZE - DirEntryTailSize
                            - RoundUp4(DirEntryHeaderSize + 1)
                            - 2 * RoundUp4(DirEntryHeaderSize + 2),
                name |-> <<"c">>, ft |-> "RegularFile"],
               TailRec>>)

InitMerged ==
    /\ super_block = [free_blocks_count |-> BgCount * (BlocksPerGroup - MetaBlocks) - 1,
                      free_inodes_count |-> BgCount * InodesPerGroup - 3]
    /\ block_groups = [g \in Groups |->
          IF g = 0
          THEN [free_blocks_count |-> BlocksPerGroup - MetaBlocks - 1,
                free_inodes_count |-> InodesPerGroup - 3,
                used_dirs_count |-> 1, itable_unused |-> InodesPerGroup - 3]
          ELSE [free_blocks_count |-> BlocksPerGroup - MetaBlocks,
                free_inodes_count |-> InodesPerGroup,
                used_dirs_count |-> 0, itable_unused |-> InodesPerGroup]]
    /\ block_bitmaps = [g \in Groups |-> [b \in 0..(BlocksPerGroup - 1) |->
          b < MetaBlocks \/ (g = 0 /\ b = RootBlock)]]
    /\ inode_bitmaps = [g \in Groups |-> [i \in 0..(InodesPerGroup - 1) |->
          g = 0 /\ i <= EXT4_ROOT_INO]]
    /\ inode_table = [i \in InodeIds |->
          IF i = EXT4_ROOT_INO THEN RootInode
          ELSE IF i = EXT4_ROOT_INO + 1
               THEN [ZeroInode EXCEPT !.mode = MODE_FILE + 420, !.link_count = 1,
                                      !.max_entries = RootMaxEntries, !.csum = TRUE]
               ELSE ZeroInode]
    /\ device = [b \in PBlockIds |->
          IF b = RootBlock THEN MergedDirBlock ELSE ZeroBlock]
    /\ build \in {"debug", "release"}
    /\ halted = "run"
    /\ last = NoOp
    /\ before = NoOp
    /\ shadow = [i \in InodeIds |-> NoWrites]
    /\ nops = 0
    /\ sb_block = super_block
    /\ fuse = NoFuse

\* Entries are created and removed in the root directory of either image
SpecTile == (Init \/ InitMerged) /\ [][NextDir]_vars

\* Names of which one is a prefix of the other are created, removed and
\* looked up in the root directory
FindNames == {<<"a", "b">>, <<"a", "b", "c">>}

CreateNamed ==
    \E n \in FindNames :
        /\ Running(MaxOps)
        /\ DoneRet(create(Cur, EXT4_ROOT_INO, n, FileMode), "create",
                   EXT4_ROOT_INO, 0, n, FileMode, <<>>)

UnlinkNamed ==
    \E n \in FindNames :
        /\ Running(MaxOps)
        /\ Done(unlink(Cur, EXT4_ROOT_INO, n), "unlink", EXT4_ROOT_INO,
                Target(Cur, EXT4_ROOT_INO, n), n, 0, <<>>, 0)

LookupNamed ==
    \E n \in FindNames :
        /\ Running(MaxOps)
        /\ Bind(lookup(Cur, EXT4_ROOT_INO, n), LAMBDA l :
             Done([st |-> l.st, fs |-> Cur], "lookup", EXT4_ROOT_INO, 0, n, 0,
                  <<>>, l.ret))

NextFind ==
    \/ CreateNamed
    \/ UnlinkNamed
    \/ LookupNamed

SpecFind == Init /\ [][NextFind]_vars

----------------------------------------------------------------------------
(* Saved states: the block device is copied under a key and copied back.   *)
(* Files are created in and removed from the root directory in between.    *)

\* StateBlockDevice::checkpoint of BlockMem: a copy of every block.  The
\* field mem is not part of the copy: it records the super block the file
\* system held in memory at that time.
DeviceState ==
    [saved |-> TRUE, sb |-> sb_block, bg |-> block_groups, bbm |-> block_bitmaps,
     ibm |-> inode_bitmaps, ino |-> inode_table, blk |-> device,
     mem |-> super_block]

\* StateExt4FuseFs::checkpoint: HashMap::insert, true when the key was new
checkpoint(f, key, state) ==
    [fuse |-> [f EXCEPT !.states[key] = state],
     ret |-> IF f.states[key].saved THEN 0 ELSE 1]

\* StateExt4FuseFs::restore: HashMap::remove and StateBlockDevice::restore.
\* Result: [fuse, ret, state]; the device is left as it is when ret = 0.
restore(f, key) ==
    IF f.states[key].saved
    THEN [fuse |-> [f EXCEPT !.states[key] = NoState], ret |-> 1,
          state |-> f.states[key]]
    ELSE [fuse |-> f, ret |-> 0, state |-> NoState]

SnapCreate ==
    \E n \in FindNames :
        /\ Running(MaxSnapOps)
        /\ DoneRet(create(Cur, EXT4_ROOT_INO, n, FileMode), "create",
                   EXT4_ROOT_INO, 0, n, FileMode, <<>>)

SnapUnlink ==
    \E n \in FindNames :
        /\ Running(MaxSnapOps)
        /\ Done(unlink(Cur, EXT4_ROOT_INO, n), "unlink", EXT4_ROOT_INO,
                Target(Cur, EXT4_ROOT_INO, n), n, 0, <<>>, 0)

Checkpoint ==
    \E key \in SnapKeys :
        /\ Running(MaxSnapOps)
        /\ Bind(checkpoint(fuse, key, DeviceState), LAMBDA c :
             CommitAll(Cur, [NoOp EXCEPT !.op = "checkpoint", !.arg = key,
                                         !.ret = c.ret],
                       sb_block, c.fuse))

\* The file system keeps the super block it holds in memory
Restore ==
    \E key \in SnapKeys :
        /\ Running(MaxSnapOps)
        /\ Bind(restore(fuse, key), LAMBDA r :
             IF r.ret = 1
             THEN CommitAll([sb |-> super_block, bg |-> r.state.bg,
                             bbm |-> r.state.bbm, ibm |-> r.state.ibm,
                             ino |-> r.state.ino, blk |-> r.state.blk],
                            [NoOp EXCEPT !.op = "restore", !.arg = key, !.ret = 1,
                                         !.data = <<r.state>>, !.len = 1],
                            r.state.sb, r.fuse)
             ELSE CommitAll(Cur, [NoOp EXCEPT !.op = "restore", !.arg = key],
                            sb_block, r.fuse))

NextSnap ==
    \/ SnapCreate
    \/ SnapUnlink
    \/ Checkpoint
    \/ Restore

SpecSnap == Init /\ [][NextSnap]_vars

----------------------------------------------------------------------------
(* Directory handles: the root directory is opened, read in replies of a   *)
(* bounded size and released, while files are created in it.               *)

ReplyRooms == 1..MaxReply

\* DirHandler::new.  The field sent is not part of the handler: it records
\* the entries the replies to readdir carried so far.
DirHandler_new(id, entries) == [id |-> id, entries |-> entries, cur |-> 0, sent |-> <<>>]

\* DirHandler::next_entry.  Result: [some, entry, dir]
next_entry(dir) ==
    [some |-> dir.cur < Len(dir.entries),
     entry |-> IF dir.cur < Len(dir.entries) THEN dir.entries[dir.cur + 1]
               ELSE [inode |-> 0, name |-> <<>>],
     dir |-> [dir EXCEPT !.cur = @ + 1]]

\* StateExt4FuseFs::add_dir.  Result: [fuse, fh]
add_dir(f, entries) ==
    [fuse |-> [f EXCEPT !.dirs = Append(@, DirHandler_new(f.next_did, entries)),
                        !.next_did = @ + 1],
     fh |-> f.next_did]

\* StateExt4FuseFs::release_dir
release_dir(f, did) ==
    [f EXCEPT !.dirs = SelectSeq(@, LAMBDA d : d.id # did)]

\* ReplyDirectory::add with a buffer that takes room entries: true when the
\* buffer is full, and the entry is not stored then.
\* Result: [full, reply]
reply_add(reply, room, entry) ==
    IF Len(reply) >= room THEN [full |-> TRUE, reply |-> reply]
    ELSE [full |-> FALSE, reply |-> Append(reply, entry)]

\* The loop of Filesystem::readdir on a handler.  Result: [st, dir, reply]
RECURSIVE readdir_loop(_, _, _, _)
readdir_loop(fs, dir, reply, room) ==
    Bind(next_entry(dir), LAMBDA n :
      IF ~n.some THEN [st |-> "ok", dir |-> n.dir, reply |-> reply]
      ELSE IF getattr(fs, n.entry.inode).st # "ok"
      THEN [st |-> "panic", dir |-> n.dir, reply |-> reply]
      ELSE
        Bind(reply_add(reply, room, n.entry), LAMBDA a :
          IF a.full THEN [st |-> "ok", dir |-> n.dir, reply |-> a.reply]
          ELSE readdir_loop(fs, n.dir, a.reply, room)))

\* Position of the handler with the id in the list, 0 when there is none
FindDir(f, fh) ==
    IF \E i \in 1..Len(f.dirs) : f.dirs[i].id = fh
    THEN CHOOSE i \in 1..Len(f.dirs) :
           f.dirs[i].id = fh /\ \A j \in 1..(i - 1) : f.dirs[j].id # fh
    ELSE 0

\* Filesystem::readdir.  Result: [st, fuse, reply]
readdir(fs, f, fh, room) ==
    Bind(FindDir(f, fh), LAMBDA i :
      IF i = 0 THEN [st |-> "EINVAL", fuse |-> f, reply |-> <<>>]
      ELSE
        Bind(readdir_loop(fs, f.dirs[i], <<>>, room), LAMBDA r :
          [st |-> r.st,
           fuse |-> [f EXCEPT !.dirs[i] = [r.dir EXCEPT !.sent = @ \o r.reply]],
           reply |-> r.reply]))

\* Filesystem::opendir.  Result: [st, fuse, fh]
opendir(fs, f, ino) ==
    Bind(list(fs, ino), LAMBDA l :
      IF l.st # "ok" THEN [st |-> l.st, fuse |-> f, fh |-> 0]
      ELSE Bind(add_dir(f, l.entries), LAMBDA a :
             [st |-> "ok", fuse |-> a.fuse, fh |-> a.fh]))

\* The step of an operation of the front end that leaves the device alone
FuseDone(st, f, op, arg, data, ret) ==
    CommitAll(Cur, [NoOp EXCEPT !.op = op, !.p = EXT4_ROOT_INO, !.arg = arg,
                                !.data = data, !.len = Len(data), !.st = st,
                                !.ret = ret],
              sb_block, f)

ReadCreate ==
    \E n \in FindNames :
        /\ Running(MaxReadOps)
        /\ DoneRet(create(Cur, EXT4_ROOT_INO, n, FileMode), "create",
                   EXT4_ROOT_INO, 0, n, FileMode, <<>>)

Opendir ==
    /\ Running(MaxReadOps)
    /\ Bind(opendir(Cur, fuse, EXT4_ROOT_INO), LAMBDA o :
         FuseDone(o.st, o.fuse, "opendir", 0, <<>>, o.fh))

Readdir ==
    \E fh \in 0..(MaxReadOps - 1), room \in ReplyRooms :
        /\ Running(MaxReadOps)
        /\ Bind(readdir(Cur, fuse, fh, room), LAMBDA r :
             FuseDone(r.st, r.fuse, "readdir", fh, r.reply, room))

Releasedir ==
    \E fh \in 0..(MaxReadOps - 1) :
        /\ Running(MaxReadOps)
        /\ FuseDone("ok", release_dir(fuse, fh), "releasedir", fh, <<>>, 0)

NextRead ==
    \/ ReadCreate
    \/ Opendir
    \/ Readdir
    \/ Releasedir

SpecRead == Init /\ [][NextRead]_vars

----------------------------------------------------------------------------
(* The block of extended attributes, as bytes.  Offsets count from 0 as in *)
(* the code; the byte at offset o is data[o + 1].                          *)

\* size_of::<XattrHeader>() and size_of::<FakeXattrEntry>()
XattrHeaderSize == 32
FakeXattrEntrySize == 16

\* size_of::<XattrEntry>(): the sixteen bytes, the name array, aligned to 4
XattrEntrySize == ((FakeXattrEntrySize + XattrNameMax + 3) \div 4) * 4

XattrNames == {<<1>>, <<2, 2>>, <<3, 3, 3, 3>>, <<5, 5, 5, 5, 5>>}
XattrValues == {<<>>, <<0>>, <<7, 8>>}

\* Little-endian bytes of an integer
le16(v) == <<v % 256, (v \div 256) % 256>>
le32(v) == <<v % 256, (v \div 256) % 256, (v \div 65536) % 256, (v \div 16777216) % 256>>

\* XattrHeader::new as bytes: magic 0xEA020000, refcount 1, blocks 1
XattrHeaderBytes ==
    <<0, 0, 2, 234>> \o le32(1) \o le32(1) \o le32(0) \o le32(0)
      \o [k \in 1..12 |-> 0]

\* Block::write_offset on the bytes.  Result: [st, data]
xattr_write_offset(data, offset, bytes) ==
    IF offset + Len(bytes) > Len(data) THEN [st |-> "panic", data |-> data]
    ELSE [st |-> "ok",
          data |-> [i \in 1..Len(data) |->
                      IF i > offset /\ i <= offset + Len(bytes)
                      THEN bytes[i - offset] ELSE data[i]]]

\* Block::read_offset on the bytes.  Result: [st, bytes]
xattr_read_offset(data, offset, size) ==
    IF offset + size > Len(data) THEN [st |-> "panic", bytes |-> <<>>]
    ELSE [st |-> "ok", bytes |-> [i \in 1..size |-> data[offset + i]]]

\* XattrBlock::init on a zeroed block
XattrBlock_init ==
    xattr_write_offset([k \in 1..XattrBlockSize |-> 0], 0, XattrHeaderBytes).data

\* XattrEntry::new
XattrEntry_new(name, value_size, value_offset) ==
    [name_len |-> Len(name) % 256, value_offset |-> value_offset % 65536,
     value_size |-> value_size, name |-> name]

\* XattrEntry::required_size
required_size(name_len) == ((FakeXattrEntrySize + name_len + 3) \div 4) * 4

\* XattrEntry::used_size
used_size(entry) == required_size(entry.name_len)

\* XattrEntry::to_bytes: the sixteen bytes and name_len bytes of the name
XattrEntry_to_bytes(entry) ==
    <<entry.name_len, 0>> \o le16(entry.value_offset) \o le32(0)
      \o le32(entry.value_size) \o le32(0)
      \o [k \in 1..entry.name_len |-> entry.name[k]]

\* Block::read_offset_as::<XattrEntry>: the slice taken has the size of the
\* whole struct, then XattrEntry::from_bytes.  Result: [st, entry]
read_xattr_entry(data, offset) ==
    IF offset + XattrEntrySize > Len(data)
    THEN [st |-> "panic", entry |-> XattrEntry_new(<<>>, 0, 0)]
    ELSE [st |-> "ok",
          entry |-> [name_len |-> data[offset + 1],
                     value_offset |-> data[offset + 3] + 256 * data[offset + 4],
                     value_size |-> data[offset + 9] + 256 * data[offset + 10]
                                      + 65536 * data[offset + 11]
                                      + 16777216 * data[offset + 12],
                     name |-> [k \in 1..data[offset + 1] |->
                                 data[offset + FakeXattrEntrySize + k]]]]

\* XattrBlock::get from entry_start on.  Result: [st, some, value]
RECURSIVE xattr_get_from(_, _, _)
xattr_get_from(data, name, entry_start) ==
    IF entry_start >= Len(data) \/ data[entry_start + 1] = 0
    THEN [st |-> "ok", some |-> FALSE, value |-> <<>>]
    ELSE
      Bind(read_xattr_entry(data, entry_start), LAMBDA r :
        IF r.st # "ok" THEN [st |-> r.st, some |-> FALSE, value |-> <<>>]
        ELSE IF name = r.entry.name
        THEN Bind(xattr_read_offset(data, r.entry.value_offset, r.entry.value_size),
                  LAMBDA v : [st |-> v.st, some |-> v.st = "ok", value |-> v.bytes])
        ELSE xattr_get_from(data, name, entry_start + used_size(r.entry)))

\* XattrBlock::get
xattr_get(data, name) == xattr_get_from(data, name, XattrHeaderSize)

\* The first loop of XattrBlock::insert.  Result: [st, entry_start, value_end]
RECURSIVE xattr_insert_scan(_, _, _)
xattr_insert_scan(data, entry_start, value_end) ==
    IF entry_start >= Len(data) \/ data[entry_start + 1] = 0
    THEN [st |-> "ok", entry_start |-> entry_start, value_end |-> value_end]
    ELSE
      Bind(read_xattr_entry(data, entry_start), LAMBDA r :
        IF r.st # "ok"
        THEN [st |-> r.st, entry_start |-> entry_start, value_end |-> value_end]
        ELSE xattr_insert_scan(data, entry_start + used_size(r.entry),
                               r.entry.value_offset))

\* XattrBlock::insert.  Result: [st, data, ret]
xattr_insert(data, name, value, bld) ==
    Bind(xattr_insert_scan(data, XattrHeaderSize, Len(data)), LAMBDA s :
      IF s.st # "ok" THEN [st |-> s.st, data |-> data, ret |-> FALSE]
      ELSE IF s.value_end < s.entry_start /\ bld = "debug"
      THEN [st |-> "panic", data |-> data, ret |-> FALSE]
      ELSE IF s.value_end >= s.entry_start
              /\ s.value_end - s.entry_start < required_size(Len(name)) + Len(value) + 1
      THEN [st |-> "ok", data |-> data, ret |-> FALSE]
      ELSE IF s.value_end < Len(value)
      THEN [st |-> "panic", data |-> data, ret |-> FALSE]
      ELSE
        Bind(xattr_write_offset(data, s.entry_start,
               XattrEntry_to_bytes(XattrEntry_new(name, Len(value),
                                                  s.value_end - Len(value)))),
             LAMBDA e :
          IF e.st # "ok" THEN [st |-> e.st, data |-> data, ret |-> FALSE]
          ELSE Bind(xattr_write_offset(e.data, s.value_end - Len(value), value),
                    LAMBDA v : [st |-> v.st, data |-> v.data, ret |-> v.st = "ok"])))

\* The first loop of XattrBlock::remove.  Result: [found, entry_start]; the
\* loop also ends, with the entry not compared, at the end of the block
RECURSIVE xattr_remove_scan(_, _, _)
xattr_remove_scan(data, name, entry_start) ==
    IF entry_start >= Len(data)
    THEN [st |-> "ok", found |-> TRUE, entry_start |-> entry_start]
    ELSE IF data[entry_start + 1] = 0
    THEN [st |-> "ok", found |-> FALSE, entry_start |-> entry_start]
    ELSE
      Bind(read_xattr_entry(data, entry_start), LAMBDA r :
        IF r.st # "ok" THEN [st |-> r.st, found |-> FALSE, entry_start |-> entry_start]
        ELSE IF name = r.entry.name
        THEN [st |-> "ok", found |-> TRUE, entry_start |-> entry_start]
        ELSE xattr_remove_scan(data, name, entry_start + used_size(r.entry)))

\* The second loop of XattrBlock::remove, the clearing after it included.
\* Result: [st, data, ret]
RECURSIVE xattr_remove_move(_, _, _, _)
xattr_remove_move(data, entry_start, value_end, removed_entry_size) ==
    IF entry_start + removed_entry_size < Len(data)
       /\ data[entry_start + removed_entry_size + 1] # 0
    THEN
      Bind(read_xattr_entry(data, entry_start + removed_entry_size), LAMBDA n :
        IF n.st # "ok" THEN [st |-> n.st, data |-> data, ret |-> FALSE]
        ELSE
          Bind(xattr_read_offset(data, n.entry.value_offset, n.entry.value_size),
               LAMBDA v :
            IF v.st # "ok" \/ value_end < Len(v.bytes)
            THEN [st |-> "panic", data |-> data, ret |-> FALSE]
            ELSE
              Bind(xattr_write_offset(data, value_end - Len(v.bytes), v.bytes),
                   LAMBDA w :
                IF w.st # "ok" THEN [st |-> w.st, data |-> data, ret |-> FALSE]
                ELSE
                  Bind(xattr_write_offset(w.data, entry_start,
                         XattrEntry_to_bytes(
                           [n.entry EXCEPT !.value_offset =
                                             (value_end - Len(v.bytes)) % 65536])),
                       LAMBDA e :
                    IF e.st # "ok" THEN [st |-> e.st, data |-> data, ret |-> FALSE]
                    ELSE xattr_remove_move(e.data, entry_start + used_size(n.entry),
                                           value_end - Len(v.bytes),
                                           removed_entry_size)))))
    ELSE IF ~(entry_start < value_end) \/ value_end > Len(data)
    THEN [st |-> "panic", data |-> data, ret |-> FALSE]
    ELSE [st |-> "ok",
          data |-> [i \in 1..Len(data) |->
                      IF i > entry_start /\ i <= value_end THEN 0 ELSE data[i]],
          ret |-> TRUE]

\* XattrBlock::remove.  Result: [st, data, ret]
xattr_remove(data, name) ==
    Bind(xattr_remove_scan(data, name, XattrHeaderSize), LAMBDA s :
      IF s.st # "ok" THEN [st |-> s.st, data |-> data, ret |-> FALSE]
      ELSE IF ~s.found THEN [st |-> "ok", data |-> data, ret |-> FALSE]
      ELSE
        Bind(read_xattr_entry(data, s.entry_start), LAMBDA r :
          IF r.st # "ok" THEN [st |-> r.st, data |-> data, ret |-> FALSE]
          ELSE xattr_remove_move(data, s.entry_start,
                                 r.entry.value_offset + r.entry.value_size,
                                 used_size(r.entry))))

\* The attributes a reference map holds: name -> [some, value]
NoXattr == [some |-> FALSE, value |-> <<>>]

\* One block of extended attributes after init; shadow is the reference map
InitXattr ==
    /\ super_block = [free_blocks_count |-> 0, free_inodes_count |-> 0]
    /\ block_groups = <<>>
    /\ block_bitmaps = <<>>
    /\ inode_bitmaps = <<>>
    /\ inode_table = <<>>
    /\ device = [b \in {0} |-> [kind |-> "xattr", data |-> XattrBlock_init]]
    /\ build \in {"debug", "release"}
    /\ halted = "run"
    /\ last = NoOp
    /\ before = NoOp
    /\ shadow = [n \in XattrNames |-> NoXattr]
    /\ nops = 0
    /\ sb_block = super_block
    /\ fuse = NoFuse

\* The step of an operation on the block that returned r, map the reference
\* map after it
XattrDone(r, data, map, op, name, value, ret) ==
    /\ device' = [device EXCEPT ![0].data = data]
    /\ shadow' = map
    /\ halted' = IF Stopped(r.st) THEN r.st ELSE "run"
    /\ before' = last
    /\ last' = [NoOp EXCEPT !.op = op, !.name = name, !.data = value,
                            !.len = Len(value), !.st = r.st, !.ret = ret]
    /\ nops' = nops + 1
    /\ UNCHANGED <<super_block, block_groups, block_bitmaps, inode_bitmaps,
                   inode_table, build, sb_block, fuse>>

\* insert of a name the block does not hold
XattrInsert ==
    \E n \in XattrNames, v \in XattrValues :
        /\ Running(MaxXattrOps)
        /\ ~shadow[n].some
        /\ Bind(xattr_insert(device[0].data, n, v, build), LAMBDA r :
             XattrDone(r, r.data,
                       IF r.st = "ok" /\ r.ret
                       THEN [shadow EXCEPT ![n] = [some |-> TRUE, value |-> v]]
                       ELSE shadow,
                       "xattr_insert", n, v, IF r.ret THEN 1 ELSE 0))

XattrRemove ==
    \E n \in XattrNames :
        /\ Running(MaxXattrOps)
        /\ Bind(xattr_remove(device[0].data, n), LAMBDA r :
             XattrDone(r, r.data, [shadow EXCEPT ![n] = NoXattr],
                       "xattr_remove", n, <<>>, IF r.ret THEN 1 ELSE 0))

XattrGet ==
    \E n \in XattrNames :
        /\ Running(MaxXattrOps)
        /\ Bind(xattr_get(device[0].data, n), LAMBDA r :
             XattrDone(r, device[0].data, shadow,
                       "xattr_get", n, r.value, IF r.some THEN 1 ELSE 0))

NextXattr ==
    \/ XattrInsert
    \/ XattrRemove
    \/ XattrGet

SpecXattr == InitXattr /\ [][NextXattr]_vars

----------------------------------------------------------------------------
(* The bitmap allocator on its own: inodes and blocks are taken and given   *)
(* back on images in every state of allocation.  Inodes 3 (block group 0)   *)
(* and 4 (block group 1) are files that own the data blocks in use of their *)
(* group; inodes 5 and 6 are free or allocated without a directory entry,   *)
(* as a create that fails to link leaves them.                              *)

MaxAllocOps == 2

OwnerIds == {EXT4_ROOT_INO + 1, EXT4_ROOT_INO + 2}
OrphanIds == (EXT4_ROOT_INO + 3)..(BgCount * InodesPerGroup)

\* The file of a group that owns its blocks first .. used - 1
OwnerInode(g, first, used) ==
    [ZeroInode EXCEPT
        !.mode = MODE_FILE + 420, !.link_count = 1, !.csum = TRUE,
        !.max_entries = RootMaxEntries,
        !.size = (used - first) * BLOCK_SIZE,
        !.block_count = (used - first) * (BLOCK_SIZE \div INODE_BLOCK_SIZE),
        !.extents = IF used > first
                    THEN <<[first_block |-> 0, block_count |-> used - first,
                            start_pblock |-> g * BlocksPerGroup + first]>>
                    ELSE <<>>]

\* used[g] = leading blocks of group g in use; orphans = allocated inodes
\* among OrphanIds
AllocImage(used, orphans) ==
    /\ super_block =
          [free_blocks_count |-> BgCount * BlocksPerGroup - used[0] - used[1],
           free_inodes_count |-> Cardinality(OrphanIds \ orphans)]
    /\ block_groups = [g \in Groups |->
          [free_blocks_count |-> BlocksPerGroup - used[g],
           free_inodes_count |->
              IF g = 0 THEN 0 ELSE Cardinality(OrphanIds \ orphans),
           used_dirs_count |-> IF g = 0 THEN 1 ELSE 0,
           itable_unused |-> IF g = 0 THEN 0 ELSE Cardinality(OrphanIds \ orphans)]]
    /\ block_bitmaps = [g \in Groups |-> [b \in 0..(BlocksPerGroup - 1) |-> b < used[g]]]
    /\ inode_bitmaps = [g \in Groups |-> [i \in 0..(InodesPerGroup - 1) |->
          LET id == g * InodesPerGroup + i + 1 IN
          id <= EXT4_ROOT_INO + 2 \/ id \in orphans]]
    /\ inode_table = [i \in InodeIds |->
          IF i = EXT4_ROOT_INO THEN RootInode
          ELSE IF i = EXT4_ROOT_INO + 1 THEN OwnerInode(0, RootBlock + 1, used[0])
          ELSE IF i = EXT4_ROOT_INO + 2 THEN OwnerInode(1, MetaBlocks, used[1])
          ELSE IF i \in orphans
               THEN [ZeroInode EXCEPT !.mode = MODE_FILE + 420, !.csum = TRUE,
                                      !.max_entries = RootMaxEntries]
               ELSE ZeroInode]
    /\ device = [b \in PBlockIds |->
          IF b = RootBlock THEN FillDirBlock ELSE ZeroBlock]

InitAlloc ==
    /\ \E u0 \in (RootBlock + 1)..BlocksPerGroup, u1 \in MetaBlocks..BlocksPerGroup,
          orphans \in SUBSET OrphanIds :
          AllocImage([g \in Groups |-> IF g = 0 THEN u0 ELSE u1], orphans)
    /\ build \in {"debug", "release"}
    /\ halted = "run"
    /\ last = NoOp
    /\ before = NoOp
    /\ shadow = [i \in InodeIds |-> NoWrites]
    /\ nops = 0
    /\ sb_block = super_block
    /\ fuse = NoFuse

AllocInode ==
    \E isdir \in BOOLEAN :
        /\ Running(MaxAllocOps)
        /\ Bind(alloc_inode(Cur, isdir), LAMBDA r :
             Done(r, "alloc_inode", 0, 0, <<>>, r.examined,
                  alloc_inode_writes(Cur, isdir), r.id))

DeallocInode ==
    \E id \in InodeIds :
        /\ Running(MaxAllocOps)
        /\ Done(dealloc_inode(Cur, read_inode(Cur, id)), "dealloc_inode",
                id, id, <<>>, 0,
                dealloc_inode_writes(Cur, read_inode(Cur, id)), 0)

AllocBlock ==
    \E id \in OwnerIds :
        /\ Running(MaxAllocOps)
        /\ Bind(alloc_block(Cur, read_inode(Cur, id)), LAMBDA r :
             Done(r, "alloc_block", id, id, <<>>, 0,
                  alloc_block_writes(Cur, read_inode(Cur, id)), r.pblock))

DeallocBlock ==
    \E id \in OwnerIds, pblock \in PBlockIds :
        /\ Running(MaxAllocOps)
        /\ Done(dealloc_block(Cur, read_inode(Cur, id), pblock), "dealloc_block",
                id, id, <<>>, pblock,
                dealloc_block_writes(Cur, read_inode(Cur, id), pblock), 0)

NextAlloc ==
    \/ AllocInode
    \/ DeallocInode
    \/ AllocBlock
    \/ DeallocBlock

SpecAlloc == InitAlloc /\ [][NextAlloc]_vars

----------------------------------------------------------------------------
(* The path based operations and rename, with the operations that build    *)
(* the trees they work on                                                   *)

\* The summary keeps the object the path named before the call
GenericCreate ==
    \E path \in Paths, m \in CreateModes :
        /\ Running(MaxOps)
        /\ DoneRet(generic_create(Cur, EXT4_ROOT_INO, path, m), "generic_create",
                   EXT4_ROOT_INO, PathTarget(Cur, EXT4_ROOT_INO, path), path, m,
                   <<>>)

\* The summary keeps the new parent (arg), the new name (data) and the inode
\* the new name had in the new parent before the call (ret)
Rename ==
    \E p \in MoveDirs, n \in Names, np \in MoveDirs, nn \in Names :
        /\ Running(MaxOps)
        /\ Done(rename(Cur, p, n, np, nn), "rename", p, Target(Cur, p, n), n,
                np, nn, Target(Cur, np, nn))

NextPath ==
    \/ Create
    \/ Mkdir
    \/ Unlink
    \/ GenericCreate
    \/ GenericRemove
    \/ Rename

SpecPath == Init /\ [][NextPath]_vars


----------------------------------------------------------------------------
(* Properties of read and write, checked under SpecRW *)

\* The bytes of a sequence from position from + 1 on, at most len of them
Slice(bytes, from, len) ==
    [i \in 1..Min(len, Len(bytes) - from) |-> bytes[from + i]]

\* The last operation was a write to a regular file at an offset within it
WroteWithin ==
    /\ last.op = "write"
    /\ last.pre.cattr.ftype = "RegularFile"
    /\ last.arg <= last.pre.cattr.size

\* C1: a write of d to a regular file at an offset no greater than its size
\* returns Len(d), and a read of Len(d) bytes from that offset straight after
\* it returns d, whether the write covers one block or several
C1_WriteThenRead ==
    WroteWithin =>
        /\ last.st = "ok"
        /\ last.ret = Len(last.data)
        /\ read(Cur, last.p, last.arg, Len(last.data))
             = [st |-> "ok", n |-> Len(last.data), buf |-> last.data]

\* C2: a regular file all of whose writes succeeded is its reference byte
\* array: its size is the largest offset + length written, and a read of any
\* range returns the bytes most recently written there
C2_ReferenceArray ==
    \A f \in InodeIds :
        (is_file(inode_table[f]) /\ shadow[f].ok) =>
            /\ inode_table[f].size = Len(shadow[f].bytes)
            /\ \A off \in 0..Len(shadow[f].bytes) :
                 \A len \in {1, Len(shadow[f].bytes) - off} :
                   Bind(read(Cur, f, off, len), LAMBDA r :
                     /\ r.st = "ok"
                     /\ r.n = Min(len, Len(shadow[f].bytes) - off)
                     /\ r.buf = Slice(shadow[f].bytes, off, len))

\* Two successful writes in a row to one file, the second over bytes of the
\* first, have left it longer than a block
C2_Witness ==
    /\ last.op = "write" /\ last.st = "ok"
    /\ before.op = "write" /\ before.st = "ok"
    /\ last.p = before.p
    /\ is_file(inode_table[last.p])
    /\ shadow[last.p].ok
    /\ Len(shadow[last.p].bytes) > BLOCK_SIZE
    /\ last.arg < before.arg + before.len
    /\ before.arg < last.arg + last.len

\* C3: a read of a regular file returns Min(buffer length, size - offset)
\* bytes when the offset is within the file and 0 bytes when it is at or past
\* the end; it never fails there
C3_ReadClamp ==
    (last.op = "read" /\ last.pre.cattr.ftype = "RegularFile") =>
        /\ last.st = "ok"
        /\ last.ret = IF last.arg <= last.pre.cattr.size
                      THEN Min(last.len, last.pre.cattr.size - last.arg)
                      ELSE 0


----------------------------------------------------------------------------
(* Properties of the name space operations, checked under Spec *)

\* The inode is allocated in its group's inode bitmap
Live(id) ==
    inode_bitmaps[(id - 1) \div InodesPerGroup][(id - 1) % InodesPerGroup]

\* The bit of a device block in the block bitmap of the group that holds it
BlockBit(pblock) ==
    block_bitmaps[pblock \div BlocksPerGroup][pblock % BlocksPerGroup]

\* The <<name, inode>> pairs of a listing
NamePairs(entries) == [i \in 1..Len(entries) |-> <<entries[i].name, entries[i].inode>>]

\* The number of entries of the directories d..last that name inode id
RECURSIVE EntriesNaming(_, _, _)
EntriesNaming(fs, id, d) ==
    IF d > BgCount * InodesPerGroup THEN 0
    ELSE (IF Live(d) /\ is_dir(fs.ino[d])
          THEN Len(SelectSeq(list(fs, d).entries, LAMBDA de : de.inode = id))
          ELSE 0)
         + EntriesNaming(fs, id, d + 1)

\* C4: when create(p, n, m) returns id for a name that p did not hold,
\* lookup(p, n) returns id and getattr(id) reports the file type of m
C4_CreateThenLookup ==
    (last.op = "create" /\ last.st = "ok" /\ ~last.pre.present) =>
        /\ lookup(Cur, last.p, last.name) = [st |-> "ok", ret |-> last.ret]
        /\ getattr(Cur, last.ret).st = "ok"
        /\ getattr(Cur, last.ret).ret.ftype = file_type(last.arg)

C6_UnlinkFrees ==
    (last.op = "unlink" /\ last.st = "ok"
       /\ last.pre.cattr.ftype = "RegularFile" /\ last.pre.cattr.links = 1) =>
        /\ ~Live(last.c)
        /\ \A i \in 1..Len(last.pre.cblocks) : ~BlockBit(last.pre.cblocks[i])
        /\ super_block.free_blocks_count
             = last.pre.free_blocks + last.pre.cattr.blocks

\* The last two operations were op1 and then op2 on the same name of the same
\* directory; both succeeded and the name was absent before op1
Pair(op1, op2) ==
    /\ before.op = op1 /\ before.st = "ok" /\ ~before.pre.present
    /\ last.op = op2 /\ last.st = "ok"
    /\ last.p = before.p /\ last.name = before.name

\* C7: link(c, p, n) of an existing inode c under a name n absent from p,
\* followed by unlink(p, n): lookup(p, n) fails with ENOENT and getattr(c)
\* reports what it reported before the link
C7_LinkUnlink ==
    (Pair("link", "unlink") /\ before.pre.cattr # NoAttr) =>
        /\ lookup(Cur, last.p, last.name) = [st |-> "ENOENT", ret |-> 0]
        /\ getattr(Cur, before.c) = [st |-> "ok", ret |-> before.pre.cattr]

\* A link and unlink pair on a regular file
C7_Witness ==
    /\ Pair("link", "unlink") /\ before.pre.cattr.ftype = "RegularFile"
    /\ before.pre.cattr.links = 1

\* C8: after mkdir(p, n, m) returned child for a name absent from p, the
\* child lists exactly "." -> child and ".." -> p, is a directory with link
\* count 2, lookup(p, n) returns child, and p's link count has grown by 1
C8_Mkdir ==
    (last.op = "mkdir" /\ last.st = "ok" /\ ~last.pre.present) =>
        /\ list(Cur, last.ret).st = "ok"
        /\ NamePairs(list(Cur, last.ret).entries)
             = << <<(<<".">>), last.ret>>, <<(<<".", ".">>), last.p>> >>
        /\ Attr(Cur, last.ret).ftype = "Directory"
        /\ Attr(Cur, last.ret).links = 2
        /\ lookup(Cur, last.p, last.name) = [st |-> "ok", ret |-> last.ret]
        /\ Attr(Cur, last.p).links = last.pre.pattr.links + 1

OnlyDots(fs, id) ==
    /\ id \in InodeIds
    /\ is_dir(fs.ino[id])
    /\ list(fs, id).st = "ok"
    /\ Len(list(fs, id).entries) = 2
    /\ \A i \in 1..2 : list(fs, id).entries[i].name \in {<<".">>, <<".", ".">>}

\* The directory lists an entry other than "." and ".."
HasFurtherEntry(fs, id) ==
    /\ id \in InodeIds
    /\ is_dir(fs.ino[id])
    /\ list(fs, id).st = "ok"
    /\ \E i \in 1..Len(list(fs, id).entries) :
         list(fs, id).entries[i].name \notin {<<".">>, <<".", ".">>}

\* The operation is an rmdir, or a generic_remove of a path that has a last
\* component
RemovesNamed(s) ==
    \/ s.op = "rmdir"
    \/ s.op = "generic_remove" /\ split_path(s.name) # <<>>

\* C10: rmdir and generic_remove succeed on a directory that holds only "."
\* and ".."; on a directory with a further entry they fail with ENOTEMPTY and
\* leave the file system as it was
C10_RemoveDirectory ==
    [][(nops' = nops + 1 /\ RemovesNamed(last')) =>
         /\ OnlyDots(Cur, last'.c) => last'.st = "ok"
         /\ HasFurtherEntry(Cur, last'.c) =>
               (last'.st = "ENOTEMPTY" /\ UNCHANGED fsvars)]_vars


----------------------------------------------------------------------------
(* Path resolution *)

\* The position of the first entry of a listing that carries a name, 0 when
\* there is none
FirstNamed(entries, name) ==
    IF \E i \in 1..Len(entries) : entries[i].name = name
    THEN CHOOSE i \in 1..Len(entries) :
           /\ entries[i].name = name
           /\ \A j \in 1..(i - 1) : entries[j].name # name
    ELSE 0

\* The reference resolution of the components segs from directory cur, read
\* off the listings of the directories on the way; it is undefined where a
\* directory on the way has no listing
RECURSIVE Resolve(_, _, _)
Resolve(fs, cur, segs) ==
    IF segs = <<>> THEN [st |-> "ok", ret |-> cur]
    ELSE IF ~is_dir(fs.ino[cur]) THEN [st |-> "ENOTDIR", ret |-> 0]
    ELSE
      Bind(dir_get_all_entries(fs, read_inode(fs, cur)), LAMBDA e :
        IF e.st # "ok" THEN [st |-> "undefined", ret |-> 0]
        ELSE
          Bind(FirstNamed(e.entries, Head(segs)), LAMBDA i :
            IF i = 0 THEN [st |-> "ENOENT", ret |-> 0]
            ELSE Resolve(fs, e.entries[i].inode, Tail(segs))))

\* The components of a path, as the separators cut it
Segments(path) == IF path = <<>> THEN <<>> ELSE split(path, <<>>)

----------------------------------------------------------------------------
(* Creation and removal by path *)

\* C13: generic_create returns an error when the object its path names
\* already exists, and then it allocates no inode and adds no entry: the
\* file system is left as it was.  The path has a component.
C13_CreateExisting ==
    [][(last'.op = "generic_create" /\ last'.name # <<>> /\ last'.c # 0)
         => (last'.st # "ok" /\ fsvars' = fsvars)]_vars

\* The directory of the last component of the path resolves and holds no
\* entry of that component
LastMissing(fs, root, path) ==
    Bind(split_path(path), LAMBDA segs :
      /\ segs # <<>>
      /\ Bind(generic_lookup(fs, root, join(SubSeq(segs, 1, Len(segs) - 1))),
              LAMBDA d :
           /\ d.st = "ok"
           /\ lookup(fs, d.ret, segs[Len(segs)]).st = "ENOENT"))

\* C14: generic_remove of a path that names a regular file or an empty
\* directory succeeds; afterwards the path does not resolve and every other
\* path resolves to the inode it resolved to before.  On a path whose last
\* component does not exist it returns an error and changes nothing.
C14_GenericRemove ==
    [][(last'.op = "generic_remove" /\ split_path(last'.name) # <<>>) =>
         /\ (\/ OnlyDots(Cur, last'.c)
             \/ Attr(Cur, last'.c).ftype = "RegularFile") =>
               /\ last'.st = "ok"
               /\ generic_lookup(Cur', last'.p, last'.name).st # "ok"
               /\ \A path \in Paths \ {last'.name} :
                     generic_lookup(Cur, last'.p, path).st = "ok" =>
                       generic_lookup(Cur', last'.p, path)
                         = generic_lookup(Cur, last'.p, path)
         /\ LastMissing(Cur, last'.p, last'.name) =>
               /\ last'.st \notin {"ok", "panic", "hang", "garbage"}
               /\ fsvars' = fsvars]_vars

----------------------------------------------------------------------------
(* A directory as a map from names to inodes *)

\* The entries of a listing that carry a name
Named(entries, name) == {i \in 1..Len(entries) : entries[i].name = name}

ListedNames == DirNames \cup {<<".">>, <<".", ".">>}

\* The listing after is the listing before with the entries of name replaced
\* by the inodes in ids, one entry for each
MapStep(listing, listing2, name, ids) ==
    /\ listing2.st = "ok"
    /\ \A n \in ListedNames \ {name} :
         {listing2.entries[i].inode : i \in Named(listing2.entries, n)}
           = {listing.entries[i].inode : i \in Named(listing.entries, n)}
    /\ \A n \in ListedNames \ {name} :
         Cardinality(Named(listing2.entries, n))
           = Cardinality(Named(listing.entries, n))
    /\ {listing2.entries[i].inode : i \in Named(listing2.entries, name)} = ids
    /\ Cardinality(Named(listing2.entries, name)) = Cardinality(ids)
    /\ \A i \in 1..Len(listing2.entries) : listing2.entries[i].name \in ListedNames

\* The directory lists "." and ".." once each and every other name at most
\* once
IsMap(listing) ==
    /\ listing.st = "ok"
    /\ \A n \in ListedNames : Cardinality(Named(listing.entries, n)) <= 1
    /\ \A n \in {<<".">>, <<".", ".">>} : Named(listing.entries, n) # {}

\* C15: a directory behaves like a map from names to inodes: after a create
\* of a name it does not hold, list gives what it gave before and the name
\* once with the id create returned; after an unlink of a name it holds, list
\* gives what it gave before without the name (so that after unlinking every
\* name it gives "." and ".." only).
C15_DirectoryMap ==
    [][(last'.op \in {"create", "unlink"} /\ IsMap(list(Cur, last'.p))) =>
         /\ (last'.op = "create" /\ ~last'.pre.present) =>
               /\ last'.st = "ok"
               /\ MapStep(list(Cur, last'.p), list(Cur', last'.p), last'.name,
                          {last'.ret})
         /\ (last'.op = "unlink" /\ last'.pre.present) =>
               /\ last'.st = "ok"
               /\ MapStep(list(Cur, last'.p), list(Cur', last'.p), last'.name,
                          {})]_vars

----------------------------------------------------------------------------
(* Rename *)

\* The last operation is a rename that succeeded, to a place other than the
\* one it moved from and to a name the new parent did not hold
Renamed ==
    /\ last.op = "rename"
    /\ last.st = "ok"
    /\ <<last.p, last.name>> # <<last.arg, last.data>>
    /\ last.ret = 0

\* C16 as stated: after a successful rename(parent, name, new_parent,
\* new_name) to another place and to a name that was absent,
\* lookup(new_parent, new_name) gives the inode lookup(parent, name) gave,
\* lookup(parent, name) fails with ENOENT, and the link count of the inode is
\* what it was.
C16_Rename ==
    Renamed =>
      /\ lookup(Cur, last.arg, last.data) = [st |-> "ok", ret |-> last.c]
      /\ lookup(Cur, last.p, last.name).st = "ENOENT"
      /\ Attr(Cur, last.c).links = last.pre.cattr.links

\* The directory lists and holds exactly one entry of the name
HoldsOnce(fs, dir, name) ==
    /\ list(fs, dir).st = "ok"
    /\ Cardinality(Named(list(fs, dir).entries, name)) = 1

\* C16 for a parent that holds the name once: after a successful rename to
\* another place and to a name that was absent, the new name resolves to the
\* inode the old name resolved to, the old name fails with ENOENT, and the
\* link count of the inode is what it was.
C16_RenameInMap ==
    [][(/\ last'.op = "rename"
        /\ last'.st = "ok"
        /\ <<last'.p, last'.name>> # <<last'.arg, last'.data>>
        /\ last'.ret = 0
        /\ HoldsOnce(Cur, last'.p, last'.name)) =>
         /\ lookup(Cur', last'.arg, last'.data) = [st |-> "ok", ret |-> last'.c]
         /\ lookup(Cur', last'.p, last'.name).st = "ENOENT"
         /\ Attr(Cur', last'.c).links = last'.pre.cattr.links]_vars

\* A file was moved from one directory to another
C16_Witness ==
    /\ Renamed
    /\ last.p # last.arg
    /\ last.c # 0
    /\ last.pre.cattr.ftype = "RegularFile"
    /\ HoldsOnce(Cur, last.arg, last.data)
    /\ lookup(Cur, last.p, last.name).st = "ENOENT"

----------------------------------------------------------------------------
(* Attributes *)

\* The value of an attribute after a setattr that was given v for it
Given(v, old) == IF v = None THEN old ELSE v

\* What getattr gives after a setattr with the values a, from what it gave
AttrAfter(attr, a) ==
    [attr EXCEPT !.ftype = IF a[1] = None THEN @ ELSE file_type(a[1]),
                 !.perm = IF a[1] = None THEN @ ELSE a[1] % TYPE_SHIFT,
                 !.uid = Given(a[2], @),
                 !.gid = Given(a[3], @),
                 !.size = Given(a[4], @),
                 !.atime = Given(a[5], @),
                 !.mtime = Given(a[6], @),
                 !.ctime = Given(a[7], @),
                 !.crtime = Given(a[8], @)]

\* C17: on an inode whose mode is not zero setattr changes exactly the
\* attributes it is given: getattr afterwards gives what it gave before with
\* the given values in their places, and no other inode, bitmap, counter or
\* block changes.  On an inode whose mode is zero setattr and getattr fail
\* with EINVAL and setattr writes nothing.
C17_Setattr ==
    [][last'.op = "setattr" =>
         IF inode_table[last'.p].mode # 0
         THEN /\ last'.st = "ok"
              /\ getattr(Cur', last'.p)
                   = [st |-> "ok",
                      ret |-> AttrAfter(getattr(Cur, last'.p).ret, last'.data)]
              /\ \A i \in InodeIds \ {last'.p} : inode_table'[i] = inode_table[i]
              /\ inode_table'[last'.p].extents = inode_table[last'.p].extents
              /\ UNCHANGED <<super_block, block_groups, block_bitmaps,
                             inode_bitmaps, device>>
         ELSE /\ last'.st = "EINVAL"
              /\ getattr(Cur, last'.p).st = "EINVAL"
              /\ UNCHANGED fsvars]_vars

\* A setattr that was given the size only, on an inode whose attributes an
\* earlier setattr had all set
C17_Witness ==
    /\ last.op = "setattr"
    /\ last.st = "ok"
    /\ before.op = "setattr"
    /\ before.st = "ok"
    /\ before.data = AllGiven
    /\ before.p = last.p
    /\ last.data = [NoneGiven EXCEPT ![4] = 0]
    /\ Attr(Cur, last.p).uid = AllGiven[2]
    /\ Attr(Cur, last.p).size = 0

\* A setattr on an inode whose mode is zero was refused
C17_WitnessInvalid ==
    /\ last.op = "setattr"
    /\ last.st = "EINVAL"

----------------------------------------------------------------------------
(* Block count *)

----------------------------------------------------------------------------
(* Counters *)

\* The sum of a counter over the block groups 0 .. g
RECURSIVE GroupSum(_, _)
GroupSum(counter, g) ==
    IF g < 0 THEN 0 ELSE counter[g] + GroupSum(counter, g - 1)

\* C19: after every operation that returned, the free-block count of the
\* superblock is the sum of the free-block counts of the block groups, and
\* the free-inode count of the superblock is the sum of their free-inode
\* counts.
C19_FreeCounts ==
    halted = "run" =>
      /\ super_block.free_blocks_count
           = GroupSum([g \in Groups |-> block_groups[g].free_blocks_count],
                      BgCount - 1)
      /\ super_block.free_inodes_count
           = GroupSum([g \in Groups |-> block_groups[g].free_inodes_count],
                      BgCount - 1)

----------------------------------------------------------------------------
(* Allocated and freed inodes *)

\* The bit of an inode in the inode bitmap of its block group
InodeBit(ibm, id) == ibm[(id - 1) \div InodesPerGroup][(id - 1) % InodesPerGroup]

----------------------------------------------------------------------------
(* The extent tree                                                          *)

MaxDepth == 5

\* The nodes of the tree under a node, each with the block it is kept in (0
\* for the root), taken by the header depth as the search takes them
RECURSIVE TreeNodes(_, _, _, _)
TreeNodes(fs, pblock, node, fuel) ==
    IF node.depth = 0 \/ fuel = 0 THEN {[pblock |-> pblock, node |-> node]}
    ELSE {[pblock |-> pblock, node |-> node]} \cup
         UNION {TreeNodes(fs, index_leaf(node.entries[k]),
                          ExtentNode_from_bytes(fs, index_leaf(node.entries[k])).node,
                          fuel - 1) : k \in DOMAIN node.entries}

FileTree(fs, id) == TreeNodes(fs, 0, extent_node(fs.ino[id]), MaxDepth + 1)

StrictlyOrdered(entries) ==
    \A k \in 1..(Len(entries) - 1) : entries[k].first_block < entries[k + 1].first_block

Covered(e) == e.first_block..(e.first_block + extent_block_count(e) - 1)

\* The extents of the leaves, each with its place
TreeExtents(tree) ==
    UNION {{[pblock |-> n.pblock, k |-> k, e |-> n.node.entries[k]] :
               k \in DOMAIN n.node.entries} : n \in {m \in tree : m.node.depth = 0}}

ExtentInvariants(fs, id) ==
    /\ fs.ino[id].depth <= MaxDepth
    /\ \A n \in FileTree(fs, id) :
          /\ StrictlyOrdered(n.node.entries)
          /\ Len(n.node.entries) <= n.node.max_entries
    /\ \A x, y \in TreeExtents(FileTree(fs, id)) :
          x # y => Covered(x.e) \cap Covered(y.e) = {}

\* C21: after an extent insertion into an inode has returned, every node of
\* its extent tree has its entries strictly ordered by first_lblock, no two
\* extents of the tree cover the same logical block, the depth is at most 5
\* and no node holds more entries than max_entries_count.
C21_ExtentTree ==
    (last.op = "extent_get_pblock_create" /\ last.st = "ok")
        => ExtentInvariants(Cur, ExtFile)

\* The extents of the tree of the file that cover a logical block
Covering(fs, id, lblock) ==
    {x \in TreeExtents(FileTree(fs, id)) : lblock \in Covered(x.e)}

\* C24: the extent query of a logical block returns start_pblock + (lblock -
\* first_lblock) of the extent that covers it, also for a block under the
\* first or under the last index entry of an interior node, and ENOENT when
\* no extent covers the block; it never aborts.
C24_ExtentQuery ==
    last.op = "extent_get_pblock" =>
        IF Covering(Cur, ExtFile, last.arg) = {}
        THEN last.st = "ENOENT"
        ELSE /\ last.st = "ok"
             /\ \E x \in Covering(Cur, ExtFile, last.arg) :
                   last.ret = x.e.start_pblock + (last.arg - x.e.first_block)

\* The pairs <<logical block, physical block>> that successful calls of
\* extent_get_pblock_create have returned for the file so far
Inserted == shadow[ExtFile].bytes

\* C25: inserting an extent never changes the mapping of the logical blocks
\* that were mapped before: a query of every logical block inserted so far
\* returns the physical block it was given at insertion, through leaf splits
\* and root splits.
C25_MappingsKept ==
    halted = "run" =>
        \A k \in 1..Len(Inserted) :
            Bind(extent_get_pblock(Cur, read_inode(Cur, ExtFile), Inserted[k][1]),
                 LAMBDA q : q.st = "ok" /\ q.pblock = Inserted[k][2])

\* The header depths of the nodes the root's entries point to
ChildDepths(fs, id) ==
    {ExtentNode_from_bytes(fs, index_leaf(fs.ino[id].extents[k])).node.depth :
        k \in DOMAIN fs.ino[id].extents}

\* C26: an insertion that splits the full root raises the depth of the tree
\* by exactly 1, leaves the root with exactly two index entries and gives
\* both new children the header depth of the new root minus 1, also when the
\* root was an interior node before.
C26_RootSplit ==
    [][(/\ last'.op = "extent_get_pblock_create"
        /\ last'.st = "ok"
        /\ inode_table'[ExtFile].depth # inode_table[ExtFile].depth)
       => /\ inode_table'[ExtFile].depth = inode_table[ExtFile].depth + 1
          /\ Len(inode_table'[ExtFile].extents) = 2
          /\ ChildDepths(Cur, ExtFile)' = {inode_table'[ExtFile].depth - 1}]_vars

----------------------------------------------------------------------------
(* Directory blocks                                                         *)

RECURSIVE SumRecLen(_, _)
SumRecLen(recs, i) ==
    IF i > Len(recs) THEN 0 ELSE recs[i].rec_len + SumRecLen(recs, i + 1)

\* The records of a directory block tile it: they end with the tail and the
\* records before the tail fill the block up to it
Tiles(b) ==
    /\ b.data # <<>>
    /\ b.data[Len(b.data)] = TailRec
    /\ SumRecLen(SubSeq(b.data, 1, Len(b.data) - 1), 1) = BLOCK_SIZE - DirEntryTailSize

\* Bytes a record of the name takes: round_up_4(8 + name_len)
RequiredSize(name) == RoundUp4(DirEntryHeaderSize + Len(name))

\* Records of the block with exactly the room of an entry of the name
ExactFit(b, name) ==
    {i \in 1..(Len(b.data) - 1) :
        /\ b.data[i].inode # 0
        /\ b.data[i].rec_len - RequiredSize(b.data[i].name) = RequiredSize(name)}

\* C22: after any sequence of directory add and remove operations the
\* records of every directory block tile it exactly (the rec_len values sum
\* to BLOCK_SIZE minus the tail size); and an add into a block holding a
\* record with exactly the required trailing free space, round_up_4(8 +
\* name_len), succeeds and leaves one record more in a block that tiles.
C22_DirectoryTiling ==
    /\ [](\A b \in DOMAIN device : device[b].kind = "dir" => Tiles(device[b]))
    /\ [][(last'.op = "create" /\ ExactFit(device[RootBlock], last'.name) # {})
            => /\ last'.st = "ok"
               /\ Len(device'[RootBlock].data) = Len(device[RootBlock].data) + 1
               /\ Tiles(device'[RootBlock])]_vars

----------------------------------------------------------------------------
(* The bitmap allocator                                                     *)

\* Groups whose descriptor counts a free inode
FreeInodeGroups == {g \in Groups : block_groups[g].free_inodes_count # 0}

LeastOf(S) == CHOOSE x \in S : \A y \in S : x <= y

ClearBits(bitmap) == {i \in DOMAIN bitmap : ~bitmap[i]}

\* C23: alloc_inode returns the smallest free inode id, group_id *
\* inodes_per_group + index + 1 for the first clear bit of the first group
\* whose free-inode count is not zero, and sets exactly that bit; it fails
\* with ENOSPC exactly when no group has a free inode; and it examines only
\* the groups 0 .. group_count - 1.
C23_AllocInode ==
    [][last'.op = "alloc_inode" =>
         /\ last'.arg \in Groups
         /\ (last'.st = "ENOSPC") <=> (FreeInodeGroups = {})
         /\ FreeInodeGroups # {} =>
              /\ last'.st = "ok"
              /\ last'.ret = LeastOf(FreeInodeGroups) * InodesPerGroup
                             + LeastOf(ClearBits(inode_bitmaps[LeastOf(FreeInodeGroups)]))
                             + 1
              /\ inode_bitmaps' =
                    [inode_bitmaps EXCEPT
                       ![LeastOf(FreeInodeGroups)]
                        [LeastOf(ClearBits(inode_bitmaps[LeastOf(FreeInodeGroups)]))]
                           = TRUE]]_vars

\* The bit of a device-absolute block in the bitmap of the group it lies in
BlockInUse(bitmaps, pblock) ==
    bitmaps[pblock \div bitmap_bits(bitmaps[0])][pblock % bitmap_bits(bitmaps[0])]

\* C27: alloc_block never returns a physical block that is in use: the id it
\* returns is a device-absolute block whose bitmap bit was clear before the
\* call, for an inode of any block group.
C27_AllocBlockFresh ==
    [][(last'.op = "alloc_block" /\ last'.st = "ok")
         => ~BlockInUse(block_bitmaps, last'.ret)]_vars

FreeBlockGroups == {g \in Groups : ClearBits(block_bitmaps[g]) # {}}

\* C28: alloc_block falls back to the other block groups as alloc_inode
\* does: it fails with ENOSPC only when no group has a free block, and when
\* the group of the requesting inode is full while another group has a free
\* block, it succeeds with a block of that other group.
C28_AllocBlockFallback ==
    [][last'.op = "alloc_block" =>
         /\ (last'.st = "ENOSPC") <=> (FreeBlockGroups = {})
         /\ FreeBlockGroups # {} =>
              /\ last'.st = "ok"
              /\ \E g \in FreeBlockGroups :
                    \E b \in ClearBits(block_bitmaps[g]) :
                       block_bitmaps' = [block_bitmaps EXCEPT ![g][b] = TRUE]]_vars

GroupOfInode(id) == (id - 1) \div InodesPerGroup

\* The bit dealloc_block examines for an inode and a block id is clear
BlockBitClear(id, pblock) ==
    /\ pblock < bitmap_bits(block_bitmaps[GroupOfInode(id)])
    /\ ~block_bitmaps[GroupOfInode(id)][pblock]

InodeBitClear(id) ==
    ~inode_bitmaps[GroupOfInode(id)][(id - 1) % InodesPerGroup]

C29_WitnessInode ==
    /\ before.op = "dealloc_inode" /\ before.st = "ok"
    /\ last.op = "dealloc_inode" /\ last.st = "EINVAL"
    /\ last.p = before.p
    /\ InodeBitClear(last.p)

\* The allocated directory inodes of a block group
DirInodesOf(g) ==
    {i \in InodeIds : /\ GroupOfInode(i) = g
                      /\ inode_bitmaps[g][(i - 1) % InodesPerGroup]
                      /\ is_dir(inode_table[i])}

\* C30: after any sequence of mkdir and rmdir calls the used-dir count of
\* every block group equals the number of allocated directory inodes of the
\* group: a directory inode allocated raises it by one, a directory inode
\* freed lowers it by one, other inodes leave it unchanged.
C30_UsedDirsCount ==
    halted = "run" =>
        \A g \in Groups :
            block_groups[g].used_dirs_count = Cardinality(DirInodesOf(g))

----------------------------------------------------------------------------
(* Write order of the allocator                                             *)

AllocatorOps == {"alloc_inode", "dealloc_inode", "alloc_block", "dealloc_block"}

WriteRank(w) ==
    IF w = "bitmap" THEN 1 ELSE IF w = "block_group" THEN 2
    ELSE IF w = "super_block" THEN 3 ELSE 0

\* The writes of bitmap, descriptor and super block come in this order
InAllocatorOrder(writes) ==
    \A i, j \in DOMAIN writes :
        (i < j /\ WriteRank(writes[i]) # 0 /\ WriteRank(writes[j]) # 0)
            => WriteRank(writes[i]) < WriteRank(writes[j])

\* C31: every allocator operation (allocating or freeing an inode or a
\* block) issues its device writes in the order bitmap block, group
\* descriptor block, super block.
C31_WriteOrder ==
    last.op \in AllocatorOps => InAllocatorOrder(last.data)

----------------------------------------------------------------------------
(* Directory lookup                                                         *)

C32_WitnessFirst ==
    /\ last.op = "lookup" /\ last.st = "ok"
    /\ Cardinality(Named(list(Cur, last.p).entries, last.name)) = 2

\* The name was created and removed, and the lookup passed its unused record
C32_WitnessUnused ==
    /\ last.op = "lookup" /\ last.st = "ENOENT"
    /\ before.op = "unlink" /\ before.st = "ok" /\ before.name = last.name

----------------------------------------------------------------------------
(* Holes of a directory                                                     *)

\* A name was removed from a directory and a name of the same length was
\* created in it by the next call
RecreatedAfterUnlink ==
    /\ before.op = "unlink" /\ before.st = "ok" /\ before.pre.present
    /\ last.op = "create" /\ last.p = before.p
    /\ Len(last.name) = Len(before.name)

\* C33: the hole a remove leaves in a directory is reclaimed by the next
\* insert of a name of the same length: create after unlink succeeds and
\* leaves the size and the block count of the directory at what they were
\* after the first create.
C33_HolesReclaimed ==
    RecreatedAfterUnlink =>
        /\ last.st = "ok"
        /\ Attr(Cur, last.p).size <= before.pre.pattr.size
        /\ Attr(Cur, last.p).blocks <= before.pre.pattr.blocks

\* C34: the directory add terminates on every well-formed directory block:
\* the record walk advances past an unused record (inode 0) and past the
\* tail sentinel, and ends with an insert or with the append of a new block.
C34_AddTerminates ==
    (last.op = "create" /\ before.st = "ok") => last.st # "hang"

----------------------------------------------------------------------------
(* Checksums of the inode records                                          *)

\* The inode ids from the root on whose bit of the inode bitmap is set (the
\* reserved inode before the root is never written)
AllocatedInodes ==
    {id \in InodeIds : id >= EXT4_ROOT_INO /\ InodeBit(inode_bitmaps, id)}

\* C35: after every public mutating operation returns, with a result or
\* with an error, each inode record in use was last written by a
\* with-checksum write; only the zeroed record of a freed inode is left
\* written without a checksum.
C35_ChecksumOnWrite ==
    (last.op # "none" /\ ~Stopped(last.st)) =>
        \A id \in AllocatedInodes : inode_table[id].csum

----------------------------------------------------------------------------
(* Reachability of the inodes in use                                       *)

\* The inodes the live entries of an allocated directory name
NamedBy(d) ==
    IF InodeBit(inode_bitmaps, d) /\ list(Cur, d).st = "ok"
    THEN {list(Cur, d).entries[i].inode : i \in 1..Len(list(Cur, d).entries)}
         \cap InodeIds
    ELSE {}

\* The inodes reached from the set of directories in at most n steps
RECURSIVE ReachedIn(_, _)
ReachedIn(set, n) ==
    IF n = 0 THEN set
    ELSE ReachedIn(set \cup UNION {NamedBy(d) : d \in set}, n - 1)

ReachableInodes == ReachedIn({EXT4_ROOT_INO}, Cardinality(InodeIds))

\* C36: after any sequence of public operations every allocated inode other
\* than the root is named by an entry of an allocated directory that is
\* reachable from the root; an unlink of a directory that still has entries
\* other than "." and ".." does not free it.
C36_AllReachable ==
    (last.op # "none" /\ ~Stopped(last.st)) =>
        AllocatedInodes \subseteq ReachableInodes

----------------------------------------------------------------------------
(* Write-back of an inode record                                           *)

SlotOps == {"sync_to_disk_without_csum", "sync_to_disk_with_csum"}

\* C37: writing back the record of an inode, with or without checksum,
\* changes only the inode_size bytes of that inode in the inode table: the
\* records of all other inodes, the next one in the same block included,
\* keep every byte, for the inode sizes 128 and 256.
C37_OnlyOwnSlot ==
    [][(last'.op \in SlotOps /\ ~Stopped(last'.st)) =>
          \A j \in SlotIds \ {last'.p} :
             SlotBytes(device', super_block, block_groups, j)
               = SlotBytes(device, super_block, block_groups, j)]_vars

----------------------------------------------------------------------------
(* Checkpoint and restore                                                  *)

\* The file system as it was when the state was saved
SavedFs(state) ==
    [sb |-> state.mem, bg |-> state.bg, bbm |-> state.bbm, ibm |-> state.ibm,
     ino |-> state.ino, blk |-> state.blk]

\* Every block of the device has its content of the time of the checkpoint
DeviceRestored(fs, sbb, state) ==
    /\ sbb = state.sb
    /\ fs.bg = state.bg
    /\ fs.bbm = state.bbm
    /\ fs.ibm = state.ibm
    /\ fs.ino = state.ino
    /\ fs.blk = state.blk

\* An operation run on the file system gives the result and leaves the
\* state that it would have given and left right after the checkpoint
SameFuture(fs, state) ==
    \A n \in FindNames :
        /\ create(fs, EXT4_ROOT_INO, n, FileMode)
             = create(SavedFs(state), EXT4_ROOT_INO, n, FileMode)
        /\ unlink(fs, EXT4_ROOT_INO, n) = unlink(SavedFs(state), EXT4_ROOT_INO, n)

\* C38: checkpoint(key), any operations, restore(key) return the file
\* system to the checkpointed state: every device block has its content of
\* the time of the checkpoint, and an operation run afterwards yields the
\* result and the state it would have yielded right after the checkpoint; a
\* restore with a key that has no saved state fails and changes nothing.
C38_RestoreReturns ==
    [][last'.op = "restore" =>
         IF fuse.states[last'.arg].saved
         THEN /\ last'.ret = 1
              /\ DeviceRestored(Cur', sb_block', fuse.states[last'.arg])
              /\ SameFuture(Cur', fuse.states[last'.arg])
         ELSE /\ last'.ret = 0
              /\ UNCHANGED <<fsvars, sb_block, fuse>>]_vars

\* The restore alone: the blocks of the device are those of the checkpoint,
\* and a restore without saved state fails and changes nothing
RestoreDevice ==
    [][last'.op = "restore" =>
         IF fuse.states[last'.arg].saved
         THEN /\ last'.ret = 1
              /\ DeviceRestored(Cur', sb_block', fuse.states[last'.arg])
         ELSE /\ last'.ret = 0
              /\ UNCHANGED <<fsvars, sb_block, fuse>>]_vars

----------------------------------------------------------------------------
(* Reading a directory through a handle                                    *)

\* The replies so far carried the first entries of the listing, in order
SentInOrder(dir) ==
    /\ Len(dir.sent) <= Len(dir.entries)
    /\ dir.sent = SubSeq(dir.entries, 1, Len(dir.sent))

\* C39: for a handle returned by opendir, successive readdir calls deliver
\* every entry of the listing captured at opendir exactly once and in
\* listing order, also when a reply becomes full in the middle of a call:
\* the entries sent are a prefix of the listing, and they are the whole
\* listing once the handle has passed its last entry.
C39_ReaddirComplete ==
    \A i \in 1..Len(fuse.dirs) :
        /\ SentInOrder(fuse.dirs[i])
        /\ fuse.dirs[i].cur >= Len(fuse.dirs[i].entries)
              => fuse.dirs[i].sent = fuse.dirs[i].entries

----------------------------------------------------------------------------
(* The block of extended attributes against a reference map                *)

\* The end of the entry table and the start of the values, found without
\* the reads of the code: <<entry_start, value_end>>
RECURSIVE XattrFree(_, _, _)
XattrFree(data, entry_start, value_end) ==
    IF entry_start >= Len(data) \/ data[entry_start + 1] = 0
    THEN <<entry_start, value_end>>
    ELSE XattrFree(data, entry_start + required_size(data[entry_start + 1]),
                   data[entry_start + 3] + 256 * data[entry_start + 4])

FreeSpace(data) ==
    XattrFree(data, XattrHeaderSize, Len(data))[2]
      - XattrFree(data, XattrHeaderSize, Len(data))[1]

\* C40: the block behaves like the reference map: get(n) returns the value
\* of the successful insert of n when n was not removed since and None
\* otherwise; insert returns false and leaves the block unchanged when the
\* free space between the entry table and the values is smaller than the
\* required size, and true otherwise; remove(n) returns true exactly when n
\* was present; no operation stops on an assertion or a failed read.
C40_ReferenceMap ==
    [][/\ last'.op \in {"xattr_get", "xattr_insert", "xattr_remove"}
          => last'.st = "ok"
       /\ last'.op = "xattr_get"
          => /\ (last'.ret = 1) = shadow[last'.name].some
             /\ last'.data = shadow[last'.name].value
       /\ last'.op = "xattr_insert"
          => IF FreeSpace(device[0].data)
                  < required_size(Len(last'.name)) + last'.len + 1
             THEN last'.ret = 0 /\ device' = device
             ELSE last'.ret = 1
       /\ last'.op = "xattr_remove"
          => (last'.ret = 1) = shadow[last'.name].some]_vars

====
